---- MODULE Spec2Model ----
(***************************************************************************)
(* Piff PSF fitting: GSObjectModel (src/piff/gsobject_model.py) and        *)
(* OpticalWavefrontPSF (src/piff/optatmo.py) as state machines.            *)
(*                                                                         *)
(* Spec     : the per-star life cycle of GSObjectModel (initialize, fit,   *)
(*            reflux) over a heap of Star / StarData / StarFit objects,    *)
(*            plus OpticalWavefrontPSF._measure_shapes on those stars.     *)
(* SpecOpt  : one OpticalWavefrontPSF.fit: _fit_init, the callbacks of the *)
(*            minimizer, the end of fit.                                   *)
(* SpecGrad : direct calls of OpticalWavefrontPSF.chi2_gradient.           *)
(***************************************************************************)
EXTENDS Integers, Sequences, FiniteSets, TLC

VARIABLES
    model,      \* GSObjectModel attributes: _fastfit, _force_model_center
    stars,      \* heap of Star objects: [data, fit] (indices into datas, fits)
    datas,      \* heap of StarData objects
    fits,       \* heap of StarFit objects
    held,       \* the Star objects the caller holds (the input and every returned Star)
    call,       \* the last GSObjectModel call: operation, argument, outcome, steps taken
    ncalls,     \* number of calls made so far
    shapes,     \* what the last call returned when it was _measure_shapes, else <<>>
    psf,        \* the OpticalWavefrontPSF object: kwargs, fitter_kwargs, live parameters
    render,     \* how the external renderer's star sizes answer to defocus
    ocall,      \* the last OpticalWavefrontPSF call: operation, arguments, what it returned
    pc          \* where the optical fit stands and the callbacks made so far

starVars == <<model, stars, datas, fits, held, call, ncalls, shapes>>

optVars == <<psf, render, ocall, pc>>

vars == <<model, stars, datas, fits, held, call, ncalls, shapes, psf, render, ocall, pc>>

(***************************************************************************)
(* Bounds of the model.                                                    *)
(***************************************************************************)
MaxCalls == 2
NPix == 3
NStars == 2
MaxCallbacks == 2
MaxGradCalls == 1

(***************************************************************************)
(* A Python name bound to a value: Only({e : x \in {v}}) is e with x the   *)
(* value of v, computed once however often e mentions x.                   *)
(***************************************************************************)
Only(S) == CHOOSE r \in S : TRUE

\* A numpy array or a list: its entries are computed once, when it is built.
Array(f) == f \o <<>>

(***************************************************************************)
(* Exact arithmetic: numpy floats are modelled as rationals <<n, d>> with  *)
(* d > 0 in lowest terms; <<0, 0>> is NaN, <<1, 0>> is inf and <<-1, 0>>   *)
(* is -inf (x / 0 is inf or -inf for x # 0, and 0 / 0 is NaN).             *)
(***************************************************************************)
Abs(x) == IF x < 0 THEN -x ELSE x

Max(a, b) == IF a > b THEN a ELSE b

RECURSIVE GCD(_, _)
GCD(a, b) == IF b = 0 THEN a ELSE Only({GCD(b, m) : m \in {a % b}})

NaN == <<0, 0>>

Inf == <<1, 0>>

\* x != x
IsNaN(r) == r[1] = 0 /\ r[2] = 0

\* np.isinf(x)
IsInf(r) == r[1] # 0 /\ r[2] = 0

Sgn(n) == IF n < 0 THEN -1 ELSE IF n > 0 THEN 1 ELSE 0

\* n / d in lowest terms, for d # 0.
Reduce(n, d) ==
    Only({IF d < 0 THEN <<(-n) \div g, (-d) \div g>> ELSE <<n \div g, d \div g>> :
          g \in {GCD(Abs(n), Abs(d))}})

Rat(n, d) == Only({IF y = 0 THEN NaN ELSE Reduce(x, y) : x \in {n}, y \in {d}})

RInt(n) == <<n, 1>>

\* a * b for numbers a, b in lowest terms, cancelling before multiplying.
Times(a, b) ==
    IF a[2] = 1 /\ b[2] = 1 THEN <<a[1] * b[1], 1>>
    ELSE Only({<<(a[1] \div g1) * (b[1] \div g2), (a[2] \div g2) * (b[2] \div g1)>> :
               g1 \in {GCD(Abs(a[1]), b[2])}, g2 \in {GCD(Abs(b[1]), a[2])}})

\* a + b for numbers a, b.
Plus(a, b) ==
    IF a[2] = 1 /\ b[2] = 1 THEN <<a[1] + b[1], 1>>
    ELSE Only({Reduce(a[1] * (b[2] \div g) + b[1] * (a[2] \div g), (a[2] \div g) * b[2]) :
               g \in {GCD(a[2], b[2])}})

RMul(a, b) ==
    Only({IF IsNaN(x) \/ IsNaN(y) THEN NaN
          ELSE IF x[2] = 0 \/ y[2] = 0 THEN <<Sgn(x[1]) * Sgn(y[1]), 0>>
          ELSE Times(x, y) : x \in {a}, y \in {b}})

RDiv(a, b) ==
    Only({IF IsNaN(x) \/ IsNaN(y) THEN NaN
          ELSE IF y[2] = 0 THEN (IF x[2] = 0 THEN NaN ELSE <<0, 1>>)
          ELSE IF x[2] = 0 THEN <<Sgn(x[1]) * (IF y[1] < 0 THEN -1 ELSE 1), 0>>
          ELSE IF y[1] = 0 THEN <<Sgn(x[1]), 0>>
          ELSE Times(x, IF y[1] < 0 THEN <<-y[2], -y[1]>> ELSE <<y[2], y[1]>>) :
          x \in {a}, y \in {b}})

RAdd(a, b) ==
    Only({IF IsNaN(x) \/ IsNaN(y) THEN NaN
          ELSE IF x[2] = 0 THEN (IF y[2] = 0 /\ y[1] # x[1] THEN NaN ELSE x)
          ELSE IF y[2] = 0 THEN y
          ELSE Plus(x, y) : x \in {a}, y \in {b}})

RNeg(a) == Only({<<-x[1], x[2]>> : x \in {a}})

RSub(a, b) == RAdd(a, RNeg(b))

RECURSIVE SumTo(_, _)
SumTo(s, n) == IF n = 0 THEN RInt(0) ELSE RAdd(SumTo(s, n - 1), s[n])

\* np.sum of a sequence of numbers
RSum(s) == Only({SumTo(t, Len(t)) : t \in {s}})

(***************************************************************************)
(* Python values.  None is the empty tuple, so that it compares with the   *)
(* tuples it stands in for (params, the 'hsm' property, alpha, beta).      *)
(***************************************************************************)
None == <<>>

Pixels == 1..NPix

\* Outcome of a call: a returned Star (its heap index) or a raised exception.
RetStar(id) == [kind |-> "star", id |-> id, err |-> ""]

Raise(e) == [kind |-> "error", id |-> 0, err |-> e]

\* What a method leaves behind: the heaps, its outcome, the steps it took and,
\* for moment_fit / lmfit, the tuple (flux, du, dv, scale, g1, g2) it returns.
Res(w, ret, tr, val) == [w |-> w, ret |-> ret, tr |-> tr, val |-> val]

IsErr(r) == r.ret.kind = "error"

World == [stars |-> stars, datas |-> datas, fits |-> fits]

DataOf(w, s) == w.datas[w.stars[s].data]

FitOf(w, s) == w.fits[w.stars[s].fit]

\* Star(data, fit): a new Star object referring to existing data and fit objects.
NewStar(w, d, f) == [w EXCEPT !.stars = Append(@, [data |-> d, fit |-> f])]

\* StarData(...) / StarData.copy(): a new data object with its own image and
\* its own properties.  src tells an observed image ("sky") from a rendered
\* model ("model").
NewData(w, d) == [w EXCEPT !.datas = Append(@, d)]

\* StarFit(params, flux, center, chisq, dof, alpha, beta); `by` records the
\* constructor call site that built the record (seed, fit, reflux).
StarFit(params, flux, center, chisq, dof, alpha, beta, by) ==
    [params |-> params, flux |-> flux, center |-> center, chisq |-> chisq,
     dof |-> dof, alpha |-> alpha, beta |-> beta, by |-> by]

NewFit(w, f) == [w EXCEPT !.fits = Append(@, f)]

\* Star(star.data, StarFit(...)): a new fit record and a new Star object
\* that refers to it and to the data object d; returned with steps tr.
ReturnStarWithFit(w, d, f, tr) ==
    Only({Res(w2, RetStar(Len(w2.stars)), tr, None) :
          w2 \in {Only({NewStar(w1, d, Len(w1.fits)) : w1 \in {NewFit(w, f)}})}})

\* Star(data, star.fit): a new Star object for a new data object d and the
\* fit object f.
StarWithData(w, d, f) == Only({NewStar(w1, Len(w1.datas), f) : w1 \in {NewData(w, d)}})

(***************************************************************************)
(* The external collaborators (galsim): rendering and adaptive moments.    *)
(* A profile is [scale, g1, g2, du, dv]; an image is a row of NPix pixels  *)
(* centred on pixel X0.  Centres are in pixels, shears in tenths.          *)
(***************************************************************************)
X0 == (NPix + 1) \div 2

\* gsobj.dilate(scale).shear(g1, g2).shift(du, dv)
Profile(scale, g1, g2, du, dv) == [scale |-> scale, g1 |-> g1, g2 |-> g2, du |-> du, dv |-> dv]

\* prof.shift(center)
shift(prof, center) == [prof EXCEPT !.du = @ + center[1], !.dv = @ + center[2]]

\* Surface brightness of a unit-flux profile at pixel i.
ProfAt(prof, i) ==
    Max(0, prof.scale + 1 - Abs(i - (X0 + prof.du))) + (IF i > X0 + prof.du THEN Max(0, prof.g1) ELSE 0)

\* galsim.Convolve([other_model, prof]) seen on the pixel row.
ConvAt(prof, i) == ProfAt(prof, i - 1) + 2 * ProfAt(prof, i) + ProfAt(prof, i + 1)

\* (prof * flux).drawImage(image): the rendered pixel row.
drawImage(prof, flux, convolved) ==
    Only({Array([i \in Pixels |->
                  RMul(fl, RInt(IF convolved THEN ConvAt(p, i) ELSE ProfAt(p, i)))]) :
          p \in {prof}, fl \in {flux}})

\* image.FindAdaptiveMom on a rendered profile: the moments of the profile,
\* with the status the measurement reports (nonzero on a blank image).
ModelMoments(prof, flux, flag) ==
    <<flux, prof.du, prof.dv, prof.scale, prof.g1, prof.g2,
      IF IsNaN(flux) \/ flux[1] = 0 THEN 1 ELSE flag>>

\* util.hsm(star): (flux, cenu, cenv, size, g1, g2, flag) of the star's image.
hsm(d) == d.mom

\* hasattr(star.data.properties, 'hsm'): properties is a dict, and hasattr
\* looks up attributes, never keys.
\* hasattr read as a test for the key 'hsm' of the properties.
hasattr_hsm_by_key(d) == d.hsm # None

hasattr_hsm(d) == FALSE

count_nonzero(wgt) == Cardinality({i \in Pixels : wgt[i] # 0})

\* np.sum(weight * (image - model)**2)
chisq_of(d, img) ==
    Only({RSum(Array([i \in Pixels |->
               Only({RMul(RInt(d.wgt[i]), RMul(r, r)) : r \in {RSub(d.pix[i], im[i])}})])) :
          im \in {img}})

(***************************************************************************)
(* GSObjectModel                                                           *)
(***************************************************************************)
\* GSObjectModel.__init__: _nparams
nparams == IF model.fmc THEN 3 ELSE 5

\* GSObjectModel.getProfile(params); params is not None here.
getProfile(params) ==
    IF model.fmc
    THEN Profile(params[1], params[2], params[3], 0, 0)
    ELSE Profile(params[3], params[4], params[5], params[1], params[2])

\* The star that holds the rendered model of star s: a new data object with
\* the drawn image (convolved with other_model or not) and a new Star with
\* the fit of s; mflag is the status FindAdaptiveMom would report on it.
model_star(w, s, mflag, convolved) ==
    LET d == DataOf(w, s)
        f == FitOf(w, s)
    IN Only({StarWithData(w, [d EXCEPT !.pix = drawImage(prof, f.flux, convolved),
                                       !.mom = ModelMoments(prof, f.flux, mflag),
                                       !.src = "model"],
                          w.stars[s].fit) :
             prof \in {shift(getProfile(f.params), f.center)}})

\* GSObjectModel.draw(star)
draw(w, s, mflag) == model_star(w, s, mflag, FALSE)

\* GSObjectModel.moment_fit(star); inp.mflag is the status FindAdaptiveMom
\* reports for the rendered model.
moment_fit(w, s, inp) ==
    LET d == DataOf(w, s)
        f == FitOf(w, s)
        param_flux == f.flux
        param_du == IF model.fmc THEN f.center[1] ELSE f.params[1]
        param_dv == IF model.fmc THEN f.center[2] ELSE f.params[2]
        param_scale == IF model.fmc THEN f.params[1] ELSE f.params[3]
        param_g1 == IF model.fmc THEN f.params[2] ELSE f.params[4]
        param_g2 == IF model.fmc THEN f.params[3] ELSE f.params[5]
    IN  IF d.hsm = None THEN Res(w, Raise("KeyError"), <<"moment_fit">>, None)
        ELSE IF f.params = None THEN Res(w, Raise("TypeError"), <<"moment_fit">>, None)
        ELSE
        \* the drawn star: built by hand when other_model is present, else draw(star)
        Only({LET ref == hsm(DataOf(w1, Len(w1.stars)))
              IN  IF ref[7] # 0 THEN Res(w1, Raise("ModelFitError"), <<"moment_fit">>, None)
                  ELSE Res(w1, RetStar(s), <<"moment_fit">>,
                           << RMul(param_flux, RDiv(d.hsm[1], ref[1])),
                              param_du + (d.hsm[2] - ref[2]),
                              param_dv + (d.hsm[3] - ref[3]),
                              (param_scale * d.hsm[4]) \div ref[4],
                              param_g1 + (d.hsm[5] - ref[5]),
                              param_g2 + (d.hsm[6] - ref[6]) >>) :
              w1 \in {IF d.other THEN model_star(w, s, inp.mflag, TRUE)
                      ELSE draw(w, s, inp.mflag)}})

\* GSObjectModel._lmfit_params(star, vary_params, vary_flux, vary_center):
\* the lmfit.Parameters in the order flux, du, dv, scale, g1, g2.
lmfit_params(w, s, vary_params, vary_flux, vary_center, inp) ==
    LET f == FitOf(w, s)
    IN  IF f.params = None
        THEN \* moment_fit returns six values and seven are unpacked
             Only({IF IsErr(m) THEN m ELSE Res(m.w, Raise("ValueError"), m.tr, None) :
                   m \in {moment_fit(w, s, inp)}})
        ELSE Res(w, RetStar(s), <<>>,
                 [value |-> IF model.fmc
                            THEN <<f.flux, f.center[1], f.center[2], f.params[1], f.params[2], f.params[3]>>
                            ELSE <<f.flux, f.params[1], f.params[2], f.params[3], f.params[4], f.params[5]>>,
                  vary |-> <<vary_flux, vary_center, vary_center, vary_params, vary_params, vary_params>>])

\* GSObjectModel._lmfit_resid summed: results.chisqr at the given values.
lmfit_chisqr(d, v) ==
    chisq_of(d, drawImage(Profile(v[4], v[5], v[6], v[2], v[3]), v[1], d.other))

\* GSObjectModel._lmfit_minimize(params, star): lmfit.minimize is external.
\* inp.opt says whether the free parameters move to the values that match
\* the data's moments (within the bounds given to params.add) or stay at
\* their start; inp.success is the success flag lmfit reports.
lmfit_minimize(p, d, inp) ==
    LET tgt == IF d.hsm = None THEN d.mom ELSE d.hsm
        clip(i, x) == IF i \in {5, 6} THEN Max(-7, IF x > 7 THEN 7 ELSE x) ELSE x
    IN Only({[value |-> v, success |-> inp.success, chisqr |-> lmfit_chisqr(d, v)] :
             v \in {Array([i \in 1..6 |->
                       IF p.vary[i] /\ inp.opt = "move" THEN clip(i, tgt[i]) ELSE p.value[i]])}})

\* GSObjectModel.lmfit(star); the steps record what results.success was.
lmfit(w, s, inp) ==
    Only({IF IsErr(p) THEN [p EXCEPT !.tr = <<"lmfit">> \o @]
          ELSE Only({IF ~results.success
                     THEN Res(p.w, Raise("RuntimeError"), <<"lmfit", "success=False">>, None)
                     ELSE Res(p.w, RetStar(s), <<"lmfit", "success=True">>, results.value) :
                     results \in {lmfit_minimize(p.val, DataOf(w, s), inp)}}) :
          p \in {lmfit_params(w, s, TRUE, TRUE, TRUE, inp)}})

\* with_hsm writing the 'hsm' property into the given star's own data.
with_hsm_in_place(w, s) ==
    LET d == DataOf(w, s)
        m == hsm(d)
    IN  IF m[7] # 0
        THEN Res(w, Raise("RuntimeError"), <<"with_hsm">>, None)
        ELSE Res([w EXCEPT !.datas[w.stars[s].data].hsm = SubSeq(m, 1, 6)],
                 RetStar(s), <<"with_hsm">>, None)

\* GSObjectModel.with_hsm(star)
with_hsm(w, s) ==
    LET d == DataOf(w, s)
        m == hsm(d)
    IN  IF ~hasattr_hsm(d)
        THEN IF m[7] # 0
             THEN Res(w, Raise("RuntimeError"), <<"with_hsm">>, None)
             ELSE \* sd = star.data.copy(); sd.properties['hsm'] = ...; Star(sd, star.fit)
                  Only({Res(w2, RetStar(Len(w2.stars)), <<"with_hsm">>, None) :
                        w2 \in {StarWithData(w, [d EXCEPT !.hsm = SubSeq(m, 1, 6)],
                                             w.stars[s].fit)}})
        ELSE Res(w, RetStar(s), <<"with_hsm">>, None)

\* GSObjectModel.reflux, the branch that re-fits flux and centre with lmfit;
\* the steps record what results.success was.
reflux_center(w, s, inp) ==
    LET d == DataOf(w, s)
        f == FitOf(w, s)
    IN Only({IF IsErr(p) THEN [p EXCEPT !.tr = <<"reflux_center">> \o @]
             ELSE Only({ReturnStarWithFit(p.w, w.stars[s].data,
                            StarFit(f.params, results.value[1],
                                    <<results.value[2], results.value[3]>>,
                                    results.chisqr, count_nonzero(d.wgt) - 3,
                                    f.alpha, f.beta, "reflux"),
                            <<"reflux_center",
                              IF results.success THEN "success=True" ELSE "success=False">>) :
                        results \in {lmfit_minimize(p.val, d, inp)}}) :
             p \in {lmfit_params(w, s, FALSE, TRUE, TRUE, inp)}})

\* The closed-form branch building a fresh fit record that carries neither
\* alpha nor beta.
reflux_flux_without_alpha_beta(w0, s, model_image) ==
    LET d == DataOf(w0, s)
        f == FitOf(w0, s)
    IN Only({ReturnStarWithFit(w0, w0.stars[s].data,
                 StarFit(f.params, RMul(f.flux, flux_ratio), f.center,
                         chisq_of(d, Array([i \in Pixels |-> RMul(flux_ratio, model_image[i])])),
                         count_nonzero(d.wgt) - 1, None, None, "reflux"),
                 <<"reflux_flux">>) :
             flux_ratio \in {RDiv(
                 RSum(Array([i \in Pixels |-> RMul(RInt(d.wgt[i]), RMul(d.pix[i], model_image[i]))])),
                 RSum(Array([i \in Pixels |-> RMul(RInt(d.wgt[i]), RMul(model_image[i], model_image[i]))])))}})

\* The closed-form branch taking chisq from the model image before it is
\* rescaled.
reflux_flux_stale_chisq(w0, s, model_image) ==
    LET d == DataOf(w0, s)
        f == FitOf(w0, s)
    IN Only({ReturnStarWithFit(w0, w0.stars[s].data,
                 StarFit(f.params, RMul(f.flux, flux_ratio), f.center,
                         chisq_of(d, model_image),
                         count_nonzero(d.wgt) - 1, f.alpha, f.beta, "reflux"),
                 <<"reflux_flux">>) :
             flux_ratio \in {RDiv(
                 RSum(Array([i \in Pixels |-> RMul(RInt(d.wgt[i]), RMul(d.pix[i], model_image[i]))])),
                 RSum(Array([i \in Pixels |-> RMul(RInt(d.wgt[i]), RMul(model_image[i], model_image[i]))])))}})

\* The closed-form branch scaling a flux kept from the first star handled
\* instead of the flux of the star given.
reflux_flux_shared_flux(w0, s, model_image) ==
    LET d == DataOf(w0, s)
        f == FitOf(w0, s)
    IN Only({ReturnStarWithFit(w0, w0.stars[s].data,
                 StarFit(f.params, RMul(FitOf(w0, 1).flux, flux_ratio), f.center,
                         chisq_of(d, Array([i \in Pixels |-> RMul(flux_ratio, model_image[i])])),
                         count_nonzero(d.wgt) - 1, f.alpha, f.beta, "reflux"),
                 <<"reflux_flux">>) :
             flux_ratio \in {RDiv(
                 RSum(Array([i \in Pixels |-> RMul(RInt(d.wgt[i]), RMul(d.pix[i], model_image[i]))])),
                 RSum(Array([i \in Pixels |-> RMul(RInt(d.wgt[i]), RMul(model_image[i], model_image[i]))])))}})

\* GSObjectModel.reflux, the closed-form branch: the flux is scaled by
\* sum(weight * data * model) / sum(weight * model**2) for the model image
\* drawn in the heaps w0, and chisq is recomputed.
reflux_flux(w0, s, model_image) ==
    LET d == DataOf(w0, s)
        f == FitOf(w0, s)
    IN Only({ReturnStarWithFit(w0, w0.stars[s].data,
                 StarFit(f.params, RMul(f.flux, flux_ratio), f.center,
                         chisq_of(d, Array([i \in Pixels |-> RMul(flux_ratio, model_image[i])])),
                         count_nonzero(d.wgt) - 1, f.alpha, f.beta, "reflux"),
                 <<"reflux_flux">>) :
             flux_ratio \in {RDiv(
                 RSum(Array([i \in Pixels |-> RMul(RInt(d.wgt[i]), RMul(d.pix[i], model_image[i]))])),
                 RSum(Array([i \in Pixels |-> RMul(RInt(d.wgt[i]), RMul(model_image[i], model_image[i]))])))}})

\* GSObjectModel.reflux from the do_center test on.
reflux_body(w, s, do_center, inp) ==
    LET d == DataOf(w, s)
        f == FitOf(w, s)
    IN  IF do_center THEN reflux_center(w, s, inp)
        ELSE IF f.params = None
             THEN Res(w, Raise("TypeError"), <<"reflux_flux">>, None)
        ELSE IF d.other
             THEN Only({reflux_flux(w, s, model_image) :
                        model_image \in {drawImage(shift(getProfile(f.params), f.center),
                                                   f.flux, TRUE)}})
             ELSE Only({Only({reflux_flux(w0, s, model_image) :
                              model_image \in {DataOf(w0, Len(w0.stars)).pix}}) :
                        w0 \in {draw(w, s, 0)}})

\* reflux re-fitting the centre whenever the model forces it, whatever
\* fit_center says.
reflux_ignoring_fit_center(w, s, fit_center, inp) == reflux_body(w, s, model.fmc, inp)

\* reflux taking the closed-form branch whatever fit_center says.
reflux_never_center(w, s, fit_center, inp) == reflux_body(w, s, FALSE, inp)

\* GSObjectModel.reflux(star, fit_center):
\* do_center = fit_center and self._force_model_center
reflux(w, s, fit_center, inp) == reflux_body(w, s, fit_center /\ model.fmc, inp)

\* fastfit as fit resolves it (None means the constructor's choice).
UsesFast(fastfit) == IF fastfit = "None" THEN model.fastfit ELSE fastfit = "True"

RECURSIVE fit(_, _, _, _), initialize(_, _, _)

\* GSObjectModel.initialize up to its final reflux: with_hsm, then for a star
\* without parameters the seed and one fast fit.
initialize_seed(w, s, inp) ==
    Only({IF IsErr(r0) THEN r0
          ELSE IF FitOf(r0.w, r0.ret.id).params = None
          THEN Only({[fit(seeded.w, seeded.ret.id, "True", inp)
                         EXCEPT !.tr = r0.tr \o <<"seed">> \o @] :
                     seeded \in {ReturnStarWithFit(r0.w, r0.w.stars[r0.ret.id].data,
                                     StarFit(IF model.fmc THEN <<1, 0, 0>> ELSE <<0, 0, 1, 0, 0>>,
                                             RInt(1), <<0, 0>>, None, 0, None, None, "seed"),
                                     <<>>)}})
          ELSE r0 :
          r0 \in {with_hsm(w, s)}})

\* initialize returning without its final reflux.
initialize_without_reflux(w, s, inp) == initialize_seed(w, s, inp)

\* GSObjectModel.fit, from the fitted values r1.val on: the new StarFit.
fit_result(r0, r1) ==
    LET s1 == r0.ret.id
        v == r1.val
        d == DataOf(r1.w, s1)
        params == IF model.fmc THEN <<v[4], v[5], v[6]>>
                  ELSE <<v[2], v[3], v[4], v[5], v[6]>>
        center == IF model.fmc THEN <<v[2], v[3]>> ELSE <<0, 0>>
        prof == shift(getProfile(params), center)
        model_image == drawImage(prof, v[1], d.other)
        chisq == chisq_of(d, model_image)
        dof == count_nonzero(d.wgt) - nparams
    IN ReturnStarWithFit(r1.w, r1.w.stars[s1].data,
                         StarFit(params, v[1], center, chisq, dof, None, None, "fit"),
                         r0.tr \o r1.tr)

\* GSObjectModel.fit(star, fastfit); fastfit is "None", "True" or "False".
fit(w, s, fastfit, inp) ==
    Only({IF IsErr(r0) THEN r0
          ELSE Only({IF IsErr(r1) THEN [r1 EXCEPT !.tr = r0.tr \o @]
                     ELSE fit_result(r0, r1) :
                     r1 \in {IF UsesFast(fastfit) THEN moment_fit(r0.w, r0.ret.id, inp)
                             ELSE lmfit(r0.w, r0.ret.id, inp)}}) :
          r0 \in {IF ~hasattr_hsm(DataOf(w, s)) THEN initialize(w, s, inp)
                  ELSE Res(w, RetStar(s), <<>>, None)}})

\* GSObjectModel.initialize(star)
initialize(w, s, inp) ==
    Only({IF IsErr(r1) THEN r1
          ELSE [reflux(r1.w, r1.ret.id, FALSE, inp) EXCEPT !.tr = r1.tr \o @] :
          r1 \in {initialize_seed(w, s, inp)}})

(***************************************************************************)
(* OpticalWavefrontPSF._measure_shapes(stars): one row per star.  e0 is    *)
(* carried as its square and e1, e2 as e1norm, e2norm (their ratio to e0), *)
(* since the square root leaves the rationals.                             *)
(***************************************************************************)
NaNRow == <<NaN, NaN, NaN>>

\* e0 ** 2 from sigma and the normalised ellipticities.
e0sq_of(sigma, e1norm, e2norm) ==
    RDiv(RMul(RInt(4), RMul(RMul(sigma, sigma), RMul(sigma, sigma))),
         RSub(RSub(RInt(1), RMul(e1norm, e1norm)), RMul(e2norm, e2norm)))

\* The row of an unflagged measurement m.
shape_row(m) ==
    Only({Only({<<e0sq_of(RInt(m[4]), e1norm, e2norm), e1norm, e2norm>> :
                e1norm \in {RDiv(RMul(g1, RInt(2)), RAdd(RInt(1), absgsq))},
                e2norm \in {RDiv(RMul(g2, RInt(2)), RAdd(RInt(1), absgsq))}}) :
          g1 \in {Rat(m[5], 10)}, g2 \in {Rat(m[6], 10)},
          absgsq \in {RAdd(RMul(Rat(m[5], 10), Rat(m[5], 10)),
                           RMul(Rat(m[6], 10), Rat(m[6], 10)))}})

\* The loop body recording a row whatever status the measurement has.
measure_shape_any_status(d) == shape_row(hsm(d))

\* The loop body of _measure_shapes: flag != 0 gives the NaN row.
measure_shape(d) ==
    LET m == hsm(d)
    IN  IF m[7] # 0 THEN NaNRow ELSE shape_row(m)

measure_shapes(w, list) == Array([k \in 1..Len(list) |-> measure_shape(DataOf(w, list[k]))])

(***************************************************************************)
(* Spec: one caller working on stars with one GSObjectModel.               *)
(***************************************************************************)
\* The star images a caller may start from.
ImageSet == { Array([i \in Pixels |-> RInt(2 + (i % 2))]) }

WeightSet == { Array([i \in Pixels |-> IF i = NPix THEN 0 ELSE 1]) }

\* What FindAdaptiveMom reports on the star's image.
MomentSet ==
    { <<RInt(4), 1, 0, 2, g1, 0, flag>> : g1 \in {0, 1}, flag \in {0, 1} }

DataSet ==
    [pix : ImageSet, wgt : WeightSet, mom : MomentSet, hsm : {None}, other : BOOLEAN,
     src : {"sky"}]

\* The outcomes of the external calls made during one operation: the status
\* of the moment measurement of the rendered model (when one is made) and
\* what lmfit.minimize does (when it is run).
Inputs(measures, minimizes) ==
    [mflag : IF measures THEN {0, 1} ELSE {0},
     opt : IF minimizes THEN {"stay", "move"} ELSE {"stay"},
     success : IF minimizes THEN BOOLEAN ELSE {TRUE}]

NoCall == [op |-> "none", arg |-> 0, opt |-> "", ret |-> Raise(""), tr |-> <<>>]

\* The held stars in the order the caller got them.
RECURSIVE SetToSeq(_)
SetToSeq(S) ==
    IF S = {} THEN <<>>
    ELSE Only({<<x>> \o SetToSeq(S \ {x}) : x \in {CHOOSE y \in S : \A z \in S : y <= z}})

\* The fit records a caller's star may carry: the empty StarFit() of a star
\* fresh from the input files, or (for a star that measures cleanly and has
\* no other_model)
\* the fit another PSF component left on it, with its alpha and beta.
InitialFits(fmc, d) ==
    {StarFit(None, RInt(1), <<0, 0>>, None, 0, None, None, "none")}
    \cup (IF d.mom[7] = 0 /\ d.mom[5] = 0 /\ ~d.other
          THEN {StarFit(IF fmc THEN <<2, 0, 0>> ELSE <<0, 0, 2, 0, 0>>, RInt(1),
                        IF fmc THEN <<-1, 0>> ELSE <<0, 0>>, RInt(0), 0,
                        <<RInt(1)>>, <<RInt(1)>>, "none")}
          ELSE {})

Init ==
    /\ model \in [fastfit : BOOLEAN, fmc : BOOLEAN]
    /\ \E d \in DataSet :
          /\ datas = <<d>>
          /\ \E f \in InitialFits(model.fmc, d) : fits = <<f>>
          /\ stars = <<[data |-> 1, fit |-> 1]>>
    /\ held = {1}
    /\ call = NoCall
    /\ ncalls = 0
    /\ shapes = <<>>
    /\ psf = None /\ render = "" /\ ocall = None /\ pc = None

\* The caller gets the outcome r of operation op on star s.
Return(op, s, opt, r) ==
    /\ stars' = r.w.stars
    /\ datas' = r.w.datas
    /\ fits' = r.w.fits
    /\ held' = IF IsErr(r) THEN held ELSE held \cup {r.ret.id}
    /\ call' = [op |-> op, arg |-> s, opt |-> opt, ret |-> r.ret, tr |-> r.tr]
    /\ ncalls' = ncalls + 1
    /\ shapes' = <<>>
    /\ UNCHANGED <<model, optVars>>

\* The caller makes its calls on the model first and measures the shapes of
\* the stars it holds after them (a call after a measurement would be the
\* same call as before it: Return clears shapes).
CanCall == ncalls < MaxCalls /\ call.op # "_measure_shapes"

Initialize ==
    /\ CanCall
    /\ \E s \in held, inp \in Inputs(TRUE, FALSE), w \in {World} :
          \E r \in {initialize(w, s, inp)} : Return("initialize", s, "", r)

Fit ==
    /\ CanCall
    /\ \E s \in held, fastfit \in {"None", "True", "False"}, w \in {World} :
          \E inp \in Inputs(UsesFast(fastfit) \/ FitOf(w, s).params = None,
                            ~UsesFast(fastfit)) :
             \E r \in {fit(w, s, fastfit, inp)} : Return("fit", s, fastfit, r)

Reflux ==
    /\ CanCall
    /\ \E s \in held, fit_center \in BOOLEAN, w \in {World} :
          \E inp \in Inputs(FALSE, fit_center /\ model.fmc) :
             \E r \in {reflux(w, s, fit_center, inp)} :
                Return("reflux", s, IF fit_center THEN "True" ELSE "False", r)

MeasureShapes ==
    /\ \E w \in {World}, list \in {SetToSeq(held)} : shapes' = measure_shapes(w, list)
    /\ call' = [NoCall EXCEPT !.op = "_measure_shapes"]
    /\ UNCHANGED <<model, stars, datas, fits, held, ncalls, optVars>>

Next == Initialize \/ Fit \/ Reflux \/ MeasureShapes

Spec == Init /\ [][Next]_vars

(***************************************************************************)
(* Properties of the GSObjectModel life cycle (checked under Spec).        *)
(***************************************************************************)
StarOps == {"initialize", "fit", "reflux"}

Returned == call.op \in StarOps /\ call.ret.kind = "star"

Count(tr, e) == Cardinality({k \in 1..Len(tr) : tr[k] = e})

\* The life-cycle state of a star, read off its fit record.
Stage(f) ==
    IF f.params = None THEN "Uninitialized"
    ELSE IF f.by = "seed" THEN "MomentSeeded"
    ELSE IF f.by = "fit" THEN "ParametersFit"
    ELSE "FluxRefined"

StageRank(st) ==
    CASE st = "Uninitialized" -> 0
      [] st = "MomentSeeded" -> 1
      [] st = "ParametersFit" -> 2
      [] OTHER -> 3

\* C1: initialize, fit and reflux leave every Star, StarData (image, weight,
\* properties) and StarFit object that existed before the call as it was, and
\* a call that returns hands back a new Star object carrying a new fit record.
C1_InputNeverModified ==
    [][ call'.op \in StarOps =>
          /\ \A i \in 1..Len(stars) : stars'[i] = stars[i]
          /\ \A i \in 1..Len(datas) : datas'[i] = datas[i]
          /\ \A i \in 1..Len(fits) : fits'[i] = fits[i]
          /\ call'.ret.kind = "star" =>
                /\ call'.ret.id > Len(stars)
                /\ stars'[call'.ret.id].fit > Len(fits) ]_vars

\* C1 witness: initialize has returned a star for the caller's first star,
\* whose data still carries no 'hsm' property and whose fit is still empty.
C1_Witness ==
    /\ call.op = "initialize" /\ call.arg = 1 /\ call.ret.kind = "star"
    /\ datas[stars[1].data].hsm = None
    /\ fits[stars[1].fit].params = None
    /\ datas[stars[call.ret.id].data].hsm # None

\* C2 as stated: a call never moves a star backwards through Uninitialized,
\* MomentSeeded, ParametersFit, FluxRefined, and a FluxRefined star stays
\* FluxRefined under every further call.
C2_FluxRefinedTerminal ==
    Returned =>
       LET a == Stage(fits[stars[call.arg].fit])
           b == Stage(fits[stars[call.ret.id].fit])
       IN /\ StageRank(a) <= StageRank(b)
          /\ a = "FluxRefined" => b = "FluxRefined"

\* C2 amended: the stage of the returned star depends on the operation alone:
\* fit returns a ParametersFit star, initialize and reflux a FluxRefined one,
\* whatever the stage of the star given; no call returns an Uninitialized or
\* MomentSeeded star.
C2_StageByOperation ==
    Returned =>
       Stage(fits[stars[call.ret.id].fit]) =
          (IF call.op = "fit" THEN "ParametersFit" ELSE "FluxRefined")

\* C2 witness: fit was given a FluxRefined star and returned a star.
C2_Witness ==
    /\ Returned /\ call.op = "fit"
    /\ Stage(fits[stars[call.arg].fit]) = "FluxRefined"

UnitParams == IF model.fmc THEN <<1, 0, 0>> ELSE <<0, 0, 1, 0, 0>>

\* C3: initialize on a star without fit parameters seeds the unit default,
\* makes exactly one moment_fit pass after it and ends with the closed-form
\* (centre kept) reflux; on a star that has fit parameters it makes no
\* moment_fit pass and the returned fit differs from the given one at most in
\* flux, chisq and dof.
C3_InitializeSequence ==
    /\ \A i \in 1..Len(fits) :
          fits[i].by = "seed" =>
             /\ fits[i].params = UnitParams
             /\ fits[i].flux = RInt(1)
             /\ fits[i].center = <<0, 0>>
    /\ (call.op = "initialize" /\ call.ret.kind = "star") =>
          LET a == fits[stars[call.arg].fit]
              b == fits[stars[call.ret.id].fit]
              tr == call.tr
          IN IF a.params = None
             THEN /\ Count(tr, "seed") = 1
                  /\ Count(tr, "moment_fit") = 1
                  /\ \E i, j \in 1..Len(tr) : i < j /\ tr[i] = "seed" /\ tr[j] = "moment_fit"
                  /\ tr[Len(tr)] = "reflux_flux"
                  /\ Count(tr, "reflux_center") = 0
             ELSE /\ Count(tr, "seed") = 0
                  /\ Count(tr, "moment_fit") = 0
                  /\ tr[Len(tr)] = "reflux_flux"
                  /\ b.params = a.params
                  /\ b.center = a.center
                  /\ b.alpha = a.alpha
                  /\ b.beta = a.beta

\* C3 witness: initialize returned for a star that already had fit
\* parameters and a centre away from the origin.
C3_Witness ==
    /\ call.op = "initialize" /\ call.ret.kind = "star"
    /\ fits[stars[call.arg].fit].params # None
    /\ fits[stars[call.arg].fit].center # <<0, 0>>

\* C4 as stated: initialize on a star whose moment measurement reports a
\* nonzero status fails with ModelFitError.
C4_InitializeRaisesModelFitError ==
    (call.op = "initialize" /\ hsm(datas[stars[call.arg].data])[7] # 0) =>
       (call.ret.kind = "error" /\ call.ret.err = "ModelFitError")

\* C5: moments measured with a nonzero status are never used: no observed
\* image carries an 'hsm' property taken from a flagged measurement, a call in
\* which the rendered model's measurement is flagged raises ModelFitError and
\* builds no fit record from it, and _measure_shapes gives a flagged star a
\* NaN row.
C5_FlaggedMomentsNeverUsed ==
    /\ [](\A i \in 1..Len(datas) :
             (datas[i].src = "sky" /\ datas[i].hsm # None) =>
                (datas[i].mom[7] = 0 /\ datas[i].hsm = SubSeq(datas[i].mom, 1, 6)))
    /\ [](call.op = "_measure_shapes" =>
             /\ Len(shapes) = Cardinality(held)
             /\ \A k \in 1..Len(shapes) :
                   hsm(datas[stars[SetToSeq(held)[k]].data])[7] # 0 => shapes[k] = NaNRow)
    /\ [][ (\E i \in (Len(datas) + 1)..Len(datas') :
               datas'[i].src = "model" /\ datas'[i].mom[7] # 0) =>
              /\ call'.ret = Raise("ModelFitError")
              /\ \A j \in (Len(fits) + 1)..Len(fits') : fits'[j].by # "fit" ]_vars

\* C5 witness: after a failed call, _measure_shapes has given the caller's
\* flagged star a NaN row.
C5_Witness ==
    /\ call.op = "_measure_shapes" /\ ncalls > 0
    /\ hsm(datas[stars[1].data])[7] # 0
    /\ shapes[1] = NaNRow

\* C14 as stated: every operation that ran the minimizer and got
\* success = False from it (the slow fit, the centre re-fit of reflux) ends in
\* an error and returns no Star.
C14_NonConvergenceRaises ==
    (call.op \in StarOps /\ Count(call.tr, "success=False") > 0) =>
       call.ret.kind = "error"

\* The number of parameters _lmfit_params leaves free.
NumFree(vary_params, vary_flux, vary_center) ==
    Cardinality({i \in 1..6 :
        <<vary_flux, vary_center, vary_center, vary_params, vary_params, vary_params>>[i]})

\* The model image of a fit record on data d, as fit and reflux render it.
ModelImage(d, f) == drawImage(shift(getProfile(f.params), f.center), f.flux, d.other)

\* C15 as stated: the fit record fit returns has dof equal to the number of
\* nonzero-weight pixels minus the number of parameters that were free in the
\* fit that was run (flux, du, dv, scale, g1, g2), and chisq equal to the
\* weighted squared residual of the model drawn at the returned parameters.
C15_FitDofCountsFreeParameters ==
    (Returned /\ call.op = "fit") =>
       LET d == datas[stars[call.ret.id].data]
           b == fits[stars[call.ret.id].fit]
       IN /\ b.dof = count_nonzero(d.wgt) - NumFree(TRUE, TRUE, TRUE)
          /\ b.chisq = chisq_of(d, ModelImage(d, b))

\* sum(weight * data * model) / sum(weight * model**2) for the model image of
\* fit record f on data d.
FluxRatio(d, f) ==
    Only({RDiv(RSum(Array([i \in Pixels |-> RMul(RInt(d.wgt[i]), RMul(d.pix[i], m[i]))])),
               RSum(Array([i \in Pixels |-> RMul(RInt(d.wgt[i]), RMul(m[i], m[i]))]))) :
          m \in {ModelImage(d, f)}})

\* C16: a reflux that returns leaves params, alpha and beta as they were, and
\* with fit_center false it leaves the centre as it was, multiplies the flux
\* by sum(w d m) / sum(w m^2) of the model image m of the given star, and
\* sets dof to the number of nonzero-weight pixels minus one.
C16_RefluxFrame ==
    (Returned /\ call.op = "reflux") =>
       LET d == datas[stars[call.arg].data]
           a == fits[stars[call.arg].fit]
           b == fits[stars[call.ret.id].fit]
       IN /\ b.params = a.params
          /\ b.alpha = a.alpha
          /\ b.beta = a.beta
          /\ call.opt = "False" =>
                /\ b.center = a.center
                /\ b.flux = RMul(a.flux, FluxRatio(d, a))
                /\ b.dof = count_nonzero(d.wgt) - 1

\* C16 witness: reflux with fit_center false returned for a star that carries
\* alpha and beta and a centre away from the origin, and changed its flux.
C16_Witness ==
    /\ Returned /\ call.op = "reflux" /\ call.opt = "False"
    /\ fits[stars[call.arg].fit].alpha # None
    /\ fits[stars[call.arg].fit].center # <<0, 0>>
    /\ fits[stars[call.ret.id].fit].flux # fits[stars[call.arg].fit].flux

\* The fit record the centre re-fit of reflux builds from what the minimizer
\* returns when flux, du and dv are free and scale, g1 and g2 are held.
CenterRefit(d, a, inp) ==
    LET p == [value |-> IF model.fmc
                        THEN <<a.flux, a.center[1], a.center[2], a.params[1], a.params[2], a.params[3]>>
                        ELSE <<a.flux, a.params[1], a.params[2], a.params[3], a.params[4], a.params[5]>>,
              vary |-> <<TRUE, TRUE, TRUE, FALSE, FALSE, FALSE>>]
    IN Only({[flux |-> r.value[1], center |-> <<r.value[2], r.value[3]>>, chisq |-> r.chisqr] :
             r \in {lmfit_minimize(p, d, inp)}})

\* What C17 asks of a reflux that re-fits the centre: the minimizer ran once,
\* and flux, centre and chisq are what it returns with exactly flux, du and
\* dv free.
RefitsCenter ==
    LET d == datas[stars[call.arg].data]
        a == fits[stars[call.arg].fit]
        b == fits[stars[call.ret.id].fit]
    IN /\ Count(call.tr, "reflux_center") = 1
       /\ \E inp \in Inputs(FALSE, TRUE) :
             LET c == CenterRefit(d, a, inp)
             IN b.flux = c.flux /\ b.center = c.center /\ b.chisq = c.chisq
       /\ b.params = a.params
       /\ b.dof = count_nonzero(d.wgt) - NumFree(FALSE, TRUE, TRUE)

\* C17 as stated: whatever the model's configuration, reflux with fit_center
\* true re-fits the centre by running the minimizer with exactly flux, du and
\* dv free.
C17_RefluxRefitsCenter ==
    (Returned /\ call.op = "reflux" /\ call.opt = "True") => RefitsCenter

\* C17 amended: reflux re-fits the centre, with exactly flux, du and dv free,
\* when fit_center is true and the model forces its centre; in every other
\* case it runs no minimizer and leaves the centre as it was.
C17_RefluxRefitsForcedCenter ==
    (Returned /\ call.op = "reflux") =>
       IF call.opt = "True" /\ model.fmc
       THEN RefitsCenter
       ELSE /\ Count(call.tr, "reflux_center") = 0
            /\ fits[stars[call.ret.id].fit].center = fits[stars[call.arg].fit].center

\* C17 witness: with a forced centre, reflux with fit_center true moved the
\* centre of the star it was given.
C17_Witness ==
    /\ Returned /\ call.op = "reflux" /\ call.opt = "True" /\ model.fmc
    /\ fits[stars[call.ret.id].fit].center # fits[stars[call.arg].fit].center

\* A call that returned a star by the closed-form flux step with the centre
\* kept (initialize, or reflux that re-fits no centre).
FluxStepDone(c) ==
    /\ c.op \in {"initialize", "reflux"} /\ c.ret.kind = "star"
    /\ c.tr[Len(c.tr)] = "reflux_flux"

\* C18 as stated: reflux with the centre fixed is a fixed point after one
\* application: applied to the star a closed-form flux step has returned, it
\* returns a fit record with the same params, flux, centre, chisq and dof.
C18_RefluxIdempotent ==
    [][ (/\ FluxStepDone(call)
         /\ call'.op = "reflux" /\ call'.opt = "False" /\ call'.arg = call.ret.id
         /\ call'.ret.kind = "star") =>
           LET a == fits[stars[call.ret.id].fit]
               b == fits'[stars'[call'.ret.id].fit]
           IN /\ b.params = a.params /\ b.flux = a.flux /\ b.center = a.center
              /\ b.chisq = a.chisq /\ b.dof = a.dof ]_vars

\* C18 witness: reflux with fit_center false has returned for a star that a
\* closed-form flux step had returned with a flux other than the seed's.
C18_Witness ==
    /\ Returned /\ call.op = "reflux" /\ call.opt = "False" /\ ncalls = 2
    /\ LET d == datas[stars[call.arg].data]
           a == fits[stars[call.arg].fit]
       IN /\ a.by = "reflux" /\ a.dof = count_nonzero(d.wgt) - 1
          /\ a.flux # RInt(1)
          /\ fits[stars[call.ret.id].fit].flux = a.flux

(***************************************************************************)
(* OpticalWavefrontPSF.  Parameter values and shapes are rationals in      *)
(* units of 1e-5 (the smallest step size), so that the step sizes 1e-4,    *)
(* 1e-3 and 1e-5 are the integers 10, 100 and 1.                           *)
(***************************************************************************)
\* OpticalWavefrontPSF.__init__: self.keys, up to the second Zernike term.
keys == <<"r0", "g1", "g2", "z04d", "z04x", "z04y", "z05d", "z05x", "z05y">>

NKeys == Len(keys)

KeyIx == 1..NKeys

\* key[0] == 'z'
IsZ(i) == i > 3

\* key[-1] of a Zernike key
Suffix(i) == IF IsZ(i) THEN <<"d", "x", "y">>[((i - 4) % 3) + 1] ELSE ""

\* OpticalWavefrontPSF.__init__: self.step_sizes
step_sizes ==
    << 10, 10, 10,
       100, 1, 1,
       100, 1, 1 >>

\* OpticalWavefrontPSF.__init__: the default values of fitter_kwargs
\* (r0 0.15, everything else 0).
default_value(i) == IF i = 1 THEN 15000 ELSE 0

\* OpticalWavefrontPSF.__init__: the limit_ entries of fitter_kwargs, <<>>
\* where there is none.
limit(i) ==
    IF i = 1 THEN <<1000, 50000>>
    ELSE IF i \in {2, 3} THEN <<-20000, 20000>>
    ELSE <<>>

\* self.weights: [0.5, 1, 1] divided by its sum.
weights == <<Rat(1, 5), Rat(2, 5), Rat(2, 5)>>

\* self.kwargs['error_estimate'] (0.001)
error_estimate == 100

Shapes == 1..3

\* The np.nan defaults of update_psf_params' arguments.
NoParams == Array([i \in KeyIx |-> NaN])

\* OpticalWavefrontPSF.update_psf_params(**params): an argument left at its
\* NaN default keeps the live value (val == val tests, np.where), and
\* _n_iter goes up by one.  update_calls is the history of the object: how
\* many times update_psf_params has been called on it.
update_psf_params(o, params) ==
    Only({[o EXCEPT !.live = Array([i \in KeyIx |-> IF p[i] # None /\ IsNaN(p[i]) THEN @[i]
                                                     ELSE p[i]]),
                    !.n_iter = @ + 1,
                    !.update_calls = @ + 1] :
          p \in {params}})

\* OpticalWavefrontPSF.__init__ from fitter_kwargs on.
OpticalWavefrontPSF(n_fit_stars, fitter_algorithm, use_gradient, guess_start, fitter_kwargs, fix) ==
    update_psf_params(
        [n_fit_stars |-> n_fit_stars,
         algorithm |-> fitter_algorithm, use_gradient |-> use_gradient,
         guess_start |-> guess_start,
         fitter_kwargs |-> fitter_kwargs, fix |-> fix,
         live |-> Array([i \in KeyIx |-> RInt(default_value(i))]),
         n_iter |-> 0, update_calls |-> 0,
         stars |-> <<>>, fit_stars |-> <<>>, shapes |-> <<>>, errors |-> <<>>],
        fitter_kwargs)

\* OpticalWavefrontPSF._stars_to_parameters(stars): a nonzero misalignment
\* is reset to zero; the reference Zernikes and the focal coordinates come
\* from the interpolator and decaminfo.
stars_to_parameters(o, list) ==
    [o |-> IF \E i \in KeyIx : IsZ(i) /\ o.live[i][1] # 0
           THEN [o EXCEPT !.live = Array([i \in KeyIx |-> IF IsZ(i) THEN RInt(0) ELSE @[i]])]
           ELSE o,
     zernikes |-> Array([k \in 1..Len(list) |-> list[k].z0]),
     fx |-> Array([k \in 1..Len(list) |-> list[k].fx]),
     fy |-> Array([k \in 1..Len(list) |-> list[k].fy])]

\* The misalignment with x taken with fx and y with fy.
analytic_misalign_zernikes_x_with_fx(zernikes, fx, fy, vals) ==
    <<vals[1], vals[2], vals[3]>> \o
    Array([t \in 1..Len(zernikes) |->
        RAdd(RAdd(RInt(zernikes[t]), vals[3 * t + 1]),
             RAdd(RMul(RInt(fx), vals[3 * t + 2]), RMul(RInt(fy), vals[3 * t + 3])))])

\* OpticalWavefrontPSF._analytic_misalign_zernikes for one star: the row
\* (r0, g1, g2, z04, z05); of a term's misalignment (d, x, y), x goes with
\* fy and y with fx.
analytic_misalign_zernikes(zernikes, fx, fy, vals) ==
    <<vals[1], vals[2], vals[3]>> \o
    Array([t \in 1..Len(zernikes) |->
        RAdd(RAdd(RInt(zernikes[t]), vals[3 * t + 1]),
             RAdd(RMul(RInt(fx), vals[3 * t + 3]), RMul(RInt(fy), vals[3 * t + 2])))])

\* How the measured size of a rendered star answers to its defocus: the
\* renderer and the moment measurement are external.
Response(kind, z) ==
    CASE kind \in {"linear", "failing"} -> z
      [] kind = "quadratic" -> RMul(z, z)
      [] OTHER -> IF z[1] < 0 THEN RNeg(RMul(z, z)) ELSE RMul(z, z)

\* The status hsm reports on a rendered star: with the "failing" renderer
\* the moment measurement fails on a star of positive defocus.
drawn_flag(kind, z) == IF kind = "failing" /\ z[1] > 0 THEN 1 ELSE 0

\* self._measure_shapes(self.drawStarList([star])) at the live parameters: the
\* NaN row when the measurement of the rendered star is flagged.
drawn_shape(kind, star, live) ==
    Only({IF drawn_flag(kind, p[4]) # 0 THEN NaNRow
          ELSE << RAdd(RSub(p[1], RInt(default_value(1))), Response(kind, p[4])),
                  RAdd(p[2], p[5]),
                  RAdd(p[3], RSub(p[4], p[5])) >> :
          p \in {analytic_misalign_zernikes(star.z0, star.focal_x, star.focal_y, live)}})

HasNaN(row) == \E j \in Shapes : IsNaN(row[j])

\* Indices k of 1..n with keep[k], in order.
RECURSIVE Compress(_, _)
Compress(keep, n) ==
    IF n = 0 THEN <<>>
    ELSE IF keep[n] THEN Append(Compress(keep, n - 1), n) ELSE Compress(keep, n - 1)

\* OpticalWavefrontPSF.chi2, its chi_l: (shapes - actual_shapes) /
\* (error_estimate * errors) for stars == self._fit_stars.
chi_l_of(o, kind) ==
    Array([s \in 1..Len(o.fit_stars) |->
        Only({Array([j \in Shapes |->
                  RDiv(RSub(shape[j], o.shapes[s][j]),
                       RMul(RInt(error_estimate), o.errors[s][j]))]) :
              shape \in {drawn_shape(kind, o.fit_stars[s], o.live)}})])

\* OpticalWavefrontPSF.chi2, from the sum over the stars kept on: rows are
\* the stars of indx.
chi2_sums(chi_l, chi2_l, indx, rows) ==
    Only({[unreduced_chi2 |-> RDiv(RSum(Array([j \in Shapes |-> RMul(weights[j], chi2_[j])])),
                                   RSum(weights)),
           dof |-> Len(rows), chi2 |-> chi2_, indx |-> indx, chi_l |-> chi_l,
           \* chi_flat: sqrt(weights[j]) * chi_l, carried as the pair
           chi_flat |-> Array([r \in 1..(3 * Len(rows)) |->
                           <<weights[((r - 1) % 3) + 1],
                             chi_l[rows[((r - 1) \div 3) + 1]][((r - 1) % 3) + 1]>>])] :
          chi2_ \in {Array([j \in Shapes |->
                        RSum(Array([r \in 1..Len(rows) |-> chi2_l[rows[r]][j]]))])}})

\* OpticalWavefrontPSF.chi2(stars, full=True) for stars == self._fit_stars.
chi2(o, kind) ==
    Only({Only({Only({chi2_sums(chi_l, chi2_l, indx, Compress(indx, Len(indx))) :
                      indx \in {Array([s \in 1..Len(chi2_l) |-> ~HasNaN(chi2_l[s])])}}) :
                chi2_l \in {Array([s \in 1..Len(chi_l) |->
                               Array([j \in Shapes |-> RMul(chi_l[s][j], chi_l[s][j])])])}}) :
          chi_l \in {chi_l_of(o, kind)}})

\* np.zeros((len(stars), 3))
zeros(n) == Array([s \in 1..n |-> Array([j \in Shapes |-> RInt(0)])])

\* The branch with the shortcut taken for zNNx and zNNy before the key is
\* asked whether it is fixed.
stencil_gradient_shortcut_when_fixed(i, fix, calculate_all) ==
    IF calculate_all THEN "stencil"
    ELSE IF IsZ(i) /\ Suffix(i) = "d"
         THEN IF ~fix[i] THEN "stencil"
              ELSE IF ~fix[i + 1] \/ ~fix[i + 2] THEN "stencil"
              ELSE "zeros"
    ELSE IF IsZ(i) /\ Suffix(i) \in {"x", "y"} THEN "shortcut"
    ELSE IF fix[i] THEN "zeros"
    ELSE "stencil"

\* chi2_gradient, the branch taken for key i: "stencil" (stencil_gradient
\* True), "zeros" or "shortcut".
stencil_gradient(i, fix, calculate_all) ==
    IF calculate_all THEN "stencil"
    ELSE IF IsZ(i) /\ Suffix(i) = "d"
         THEN IF ~fix[i] THEN "stencil"
              ELSE IF ~fix[i + 1] \/ ~fix[i + 2] THEN "stencil"
              ELSE "zeros"
    ELSE IF fix[i] THEN "zeros"
    ELSE IF IsZ(i) /\ Suffix(i) \in {"x", "y"} THEN "shortcut"
    ELSE "stencil"

\* gradient * f[:, None]
scaled(gradient, f) ==
    Array([s \in 1..Len(f) |-> Array([j \in Shapes |-> RMul(gradient[s][j], RInt(f[s]))])])

\* The shortcut with x taken with fx and y with fy.
shortcut_x_with_fx(i, gradients_l, fx, fy) ==
    IF Suffix(i) = "x"
    THEN scaled(gradients_l[Len(gradients_l)], fx)
    ELSE scaled(gradients_l[Len(gradients_l) - 1], fy)

\* chi2_gradient, the entry of a free zNNx or zNNy:
\* gradients_l[-1] * fy for x, gradients_l[-2] * fx for y.
shortcut(i, gradients_l, fx, fy) ==
    IF Suffix(i) = "x"
    THEN scaled(gradients_l[Len(gradients_l)], fy)
    ELSE scaled(gradients_l[Len(gradients_l) - 1], fx)

\* chi2_gradient, the slope from the two stencil evaluations:
\* np.sum(stencil_values[:, None, None] * stencil_chi2_l, axis=0) / step_size
slope(plus, minus, step_size) ==
    Array([s \in 1..Len(plus) |-> Array([j \in Shapes |->
        RDiv(RAdd(RMul(Rat(1, 2), plus[s][j]), RMul(Rat(-1, 2), minus[s][j])),
             RInt(step_size))])])

\* One term of the stencil with _n_iter left as update_psf_params set it.
stencil_term_counted(o, kind, args, i, term) ==
    Only({[o |-> o1, chi2_l |-> chi2(o1, kind).chi_l] :
          o1 \in {update_psf_params(o, [args EXCEPT ![i] = RAdd(@, RInt(term * step_sizes[i]))])}})

\* chi2_gradient, one term of the stencil of key i: the live parameters are
\* set to the arguments with key i moved, chi2 is evaluated in full and its
\* fifth value (chi_l) is kept under the name chi2_l; _n_iter is put back.
stencil_term(o, kind, args, i, term) ==
    Only({[o |-> [o1 EXCEPT !.n_iter = @ - 1], chi2_l |-> chi2(o1, kind).chi_l] :
          o1 \in {update_psf_params(o, [args EXCEPT ![i] = RAdd(@, RInt(term * step_sizes[i]))])}})

\* chi2_gradient, the stencil of key i: term 1, then term -1.
stencil(o, kind, args, i) ==
    Only({Only({[o |-> m.o, stencil_chi2_l |-> <<p.chi2_l, m.chi2_l>>,
                 gradient |-> slope(p.chi2_l, m.chi2_l, step_sizes[i])] :
                m \in {stencil_term(p.o, kind, args, i, -1)}}) :
          p \in {stencil_term(o, kind, args, i, 1)}})

\* chi2_gradient, the body of the loop over self.keys for key i.
gradient_key(acc, kind, args, calculate_all, i) ==
    Only({CASE how = "zeros" ->
                 [acc EXCEPT !.gradients_l = Append(@, zeros(Len(acc.fx)))]
            [] how = "shortcut" ->
                 [acc EXCEPT !.gradients_l = Append(@, shortcut(i, @, acc.fx, acc.fy))]
            [] OTHER ->
                 Only({[acc EXCEPT !.o = st.o,
                                   !.gradients_l = Append(@, st.gradient),
                                   !.stencils = Append(@, st.stencil_chi2_l)] :
                       st \in {stencil(acc.o, kind, args, i)}}) :
          how \in {stencil_gradient(i, acc.o.fix, calculate_all)}})

\* chi2_gradient, the loop over self.keys from key i on.
RECURSIVE gradient_keys(_, _, _, _, _)
gradient_keys(acc, kind, args, calculate_all, i) ==
    IF i > NKeys THEN acc
    ELSE Only({gradient_keys(next, kind, args, calculate_all, i + 1) :
               next \in {gradient_key(acc, kind, args, calculate_all, i)}})

\* The sum over the stars with nothing left out.
sum_with_nan(col) == RSum(col)

\* np.nansum over the stars
nansum(col) == RSum(SelectSeq(col, LAMBDA r : ~IsNaN(r)))

\* chi2_gradient, the last lines: gradients from gradients_l.
aggregate(gradients_l, n) ==
    Array([i \in KeyIx |->
        RDiv(RSum(Array([j \in Shapes |->
                 RMul(weights[j], nansum(Array([s \in 1..n |-> gradients_l[i][s][j]])))])),
             RSum(weights))])

\* OpticalWavefrontPSF.chi2_gradient(stars, **args, calculate_all) for
\* stars == self._fit_stars: the PSF as the call leaves it and the five
\* values returned.
chi2_gradient(o, kind, args, calculate_all) ==
    Only({[o |-> acc.o, gradients |-> aggregate(acc.gradients_l, Len(o.fit_stars)),
           gradients_l |-> acc.gradients_l, stencils |-> acc.stencils,
           fx |-> acc.fx, fy |-> acc.fy] :
          acc \in {gradient_keys(
                      [o |-> o, gradients_l |-> <<>>, stencils |-> <<>>,
                       fx |-> Array([s \in 1..Len(o.fit_stars) |-> o.fit_stars[s].focal_x]),
                       fy |-> Array([s \in 1..Len(o.fit_stars) |-> o.fit_stars[s].focal_y])],
                      kind, args, calculate_all, 1)}})

\* np.arange(n), as positions 1..n
arange(n) == Array([k \in 1..n |-> k])

\* np.abs(shape) > self.max_shapes for the default max_shapes of 1e10: of
\* the values a shape takes here only inf is above it.
exceeds_max_shapes(row) == \E j \in Shapes : IsInf(row[j])

\* util.hsm_error(star) as _measure_shape_errors sees it: the exception that
\* hsm_model.fit(star) raises in it (star.raises, "" when it returns) or the
\* errors (sigma_e0, sigma_e1, sigma_e2) computed from the sums.
hsm_error(star) ==
    IF star.raises # "" THEN [raised |-> star.raises, val |-> None]
    ELSE [raised |-> "", val |-> star.err]

\* The loop recording a row of zeros for a star whose error propagation
\* raised.
RECURSIVE measure_shape_errors_zero_row(_, _, _)
measure_shape_errors_zero_row(list, k, errors) ==
    IF k > Len(list) THEN [raised |-> "", errors |-> errors]
    ELSE Only({IF r.raised \in {"ValueError", "ModelFitError", "RuntimeError"}
               THEN measure_shape_errors_zero_row(list, k + 1,
                       Append(errors, Array([j \in Shapes |-> RInt(0)])))
               ELSE IF r.raised # "" THEN [raised |-> r.raised, errors |-> errors]
               ELSE measure_shape_errors_zero_row(list, k + 1, Append(errors, r.val)) :
               r \in {hsm_error(list[k])}})

\* OpticalWavefrontPSF._measure_shape_errors(stars), the loop from star k
\* on: ValueError, ModelFitError and RuntimeError append the NaN row, any
\* other exception leaves the loop.
RECURSIVE measure_shape_errors(_, _, _)
measure_shape_errors(list, k, errors) ==
    IF k > Len(list) THEN [raised |-> "", errors |-> errors]
    ELSE Only({IF r.raised \in {"ValueError", "ModelFitError", "RuntimeError"}
               THEN measure_shape_errors(list, k + 1, Append(errors, NaNRow))
               ELSE IF r.raised # "" THEN [raised |-> r.raised, errors |-> errors]
               ELSE measure_shape_errors(list, k + 1, Append(errors, r.val)) :
               r \in {hsm_error(list[k])}})

\* _fit_init, the subsample: choice is np.arange(len(stars)) unless
\* n_fit_stars is nonzero and below the number of stars, and then it is the
\* sorted outcome rnd of np.random.choice(len(stars), n_fit_stars,
\* replace=False).
subsample(n_fit_stars, n, rnd) ==
    IF n_fit_stars # 0 /\ n_fit_stars < n THEN rnd ELSE arange(n)

\* _fit_init, the cut: of the chosen stars those whose shape or error row
\* holds a NaN or whose shape is above max_shapes are left out of _fit_stars,
\* _shapes and _errors; every star of self.stars is marked with whether it
\* is used (np.in1d(np.arange(len(stars)), choice[indx])).
fit_init_cut(o, withfocal, choice, shapes_, errors_) ==
    Only({Only({[o EXCEPT !.stars = marked,
                          !.fit_stars = Array([r \in 1..Len(rows) |-> marked[choice[rows[r]]]]),
                          !.shapes = Array([r \in 1..Len(rows) |-> shapes_[rows[r]]]),
                          !.errors = Array([r \in 1..Len(rows) |-> errors_[rows[r]]])] :
                marked \in {Array([k \in 1..Len(withfocal) |->
                               [withfocal[k] EXCEPT !.used_in_optical_wavefront =
                                   \E r \in 1..Len(rows) : choice[rows[r]] = k]])}}) :
          rows \in {Compress(Array([r \in 1..Len(choice) |->
                        ~(HasNaN(shapes_[r]) \/ HasNaN(errors_[r])
                          \/ exceeds_max_shapes(shapes_[r]))]), Len(choice))}})

\* The counter that never advances: every free key reads the first entry.
key_i_never_advanced(o, i) == 1

\* The counter key_i of the loops over self.keys when the loop comes to key
\* i, as a position from 1: it starts at the first entry and has advanced
\* once for every non-fixed key before key i.
key_i(o, i) == Cardinality({j \in 1..(i - 1) : ~o.fix[j]}) + 1

\* The keys met with fix_<key> false by a loop over self.keys, in the order
\* the loop meets them.
free_keys(o) == Compress(Array([i \in KeyIx |-> ~o.fix[i]]), NKeys)

\* x0 of _scipy_fit and _emcee_fit, p0 of _analytic_fit: the value in
\* fitter_kwargs of every non-fixed key, appended in the order of self.keys.
free_vector(o) ==
    Only({Array([r \in 1..Len(free) |-> o.fitter_kwargs[free[r]]]) : free \in {free_keys(o)}})

\* _analytic_chi2, its vals: vals_in[key_i] for a non-fixed key, the value
\* in fitter_kwargs for a fixed one.
analytic_vals(o, vals_in) ==
    Array([i \in KeyIx |-> IF ~o.fix[i] THEN vals_in[key_i(o, i)] ELSE o.fitter_kwargs[i]])

\* _fit_init with guess_start: self.fitter_kwargs['r0'] = r0_guess, then
\* self._analytic_fit(logger), which stores the vector res.x scipy returns
\* (guess.x, one entry per non-fixed key) and ends with
\* update_psf_params(**self.fitter_kwargs).
analytic_fit(o, guess) ==
    Only({update_psf_params([o EXCEPT !.fitter_kwargs = fk], fk) :
          fk \in {Array([i \in KeyIx |->
                     IF ~o.fix[i] THEN guess.x[key_i(o, i)]
                     ELSE IF i = 1 THEN guess.r0 ELSE o.fitter_kwargs[i]])}})

\* OpticalWavefrontPSF._fit_init(stars, wcs, pointing).  rnd is what
\* np.random.choice gives when it is asked; guess is what the external
\* steps of guess_start give: the r0 guessed from the mean size and the
\* vector scipy's minimize returns in _analytic_fit.
fit_init(o, list, guess, rnd) ==
    Only({Only({Only({IF o.guess_start THEN analytic_fit(o1, guess) ELSE o1 :
                      o1 \in {fit_init_cut(sp.o, withfocal, choice,
                                 Array([r \in 1..Len(choice) |-> measure_shape(withfocal[choice[r]])]),
                                 measure_shape_errors(
                                    Array([r \in 1..Len(choice) |-> withfocal[choice[r]]]),
                                    1, <<>>).errors)}}) :
                withfocal \in {Array([k \in 1..Len(list) |->
                                  [list[k] EXCEPT !.focal_x = sp.fx[k], !.focal_y = sp.fy[k]]])},
                choice \in {subsample(o.n_fit_stars, Len(list), rnd)}}) :
          sp \in {stars_to_parameters(o, list)}})

\* The params dict built from the vector vals the optimizer passes (one
\* entry per non-fixed key): params[key] = vals[key_i]; fixed keys are absent.
FreeOnly(o, vals) == Array([i \in KeyIx |-> IF o.fix[i] THEN NaN ELSE vals[key_i(o, i)]])

\* _scipy_gradient, its params: vals[key_i] for a non-fixed key, the value
\* in fitter_kwargs for a fixed one.
scipy_gradient_params(o, vals) ==
    Array([i \in KeyIx |-> IF o.fix[i] THEN o.fitter_kwargs[i] ELSE vals[key_i(o, i)]])

\* The full argument list as minuit and lmfit pass it: a fixed key comes at
\* the value it was given when the minimizer was built.
WithFixed(o, vals) == Array([i \in KeyIx |-> IF o.fix[i] THEN o.fitter_kwargs[i] ELSE vals[i]])

\* self.fitter_kwargs.update(params)
kwargs_update(o, params) ==
    [o EXCEPT !.fitter_kwargs = Array([i \in KeyIx |-> IF IsNaN(params[i]) THEN @[i] ELSE params[i]])]

\* self.fitter_kwargs.update(params); self.update_psf_params(**params).
updated(o, params) == Only({update_psf_params(kwargs_update(o, p), p) : p \in {params}})

\* OpticalWavefrontPSF._scipy_chi2(vals)
scipy_chi2(o, kind, vals) ==
    Only({[o |-> o1, ret |-> chi2(o1, kind).unreduced_chi2] :
          o1 \in {updated(o, FreeOnly(o, vals))}})

\* OpticalWavefrontPSF._scipy_gradient(vals)
scipy_gradient(o, kind, vals) ==
    Only({[o |-> g.o,
           ret |-> Only({Array([r \in 1..Len(free) |-> g.gradients[free[r]]]) :
                         free \in {Compress(Array([i \in KeyIx |-> ~o.fix[i]]), NKeys)}}),
           grad |-> g] :
          g \in {chi2_gradient(o, kind, scipy_gradient_params(o, vals), FALSE)}})

\* OpticalWavefrontPSF._minuit_chi2(r0, ..., z11y)
minuit_chi2(o, kind, params) ==
    Only({[o |-> o1, ret |-> chi2(o1, kind).unreduced_chi2] : o1 \in {updated(o, params)}})

\* OpticalWavefrontPSF._minuit_gradient(r0, ..., z11y)
minuit_gradient(o, kind, params) ==
    Only({[o |-> g.o, ret |-> g.gradients, grad |-> g] :
          g \in {chi2_gradient(o, kind, params, FALSE)}})

\* OpticalWavefrontPSF._lmfit_resid(lmparams)
lmfit_resid(o, kind, params) ==
    Only({[o |-> o1, ret |-> chi2(o1, kind).chi_flat] : o1 \in {updated(o, params)}})

\* -np.inf
NegInf == <<-1, 0>>

\* OpticalWavefrontPSF._emcee_lnprob(vals): a free value outside its limit
\* returns -inf before anything is updated.
emcee_lnprob(o, kind, vals) ==
    IF \E i \in KeyIx :
          /\ ~o.fix[i] /\ limit(i) # <<>>
          /\ \E val \in {vals[key_i(o, i)]} :
                val[1] < limit(i)[1] * val[2] \/ val[1] > limit(i)[2] * val[2]
    THEN [o |-> o, ret |-> NegInf]
    ELSE Only({[o |-> o1, ret |-> RMul(Rat(-1, 2), chi2(o1, kind).unreduced_chi2)] :
               o1 \in {updated(o, FreeOnly(o, vals))}})

\* The end of _scipy_fit, _minuit_fit, _lmfit_fit or _emcee_fit (the free
\* keys of fitter_kwargs take the minimizer's result x) followed by the last
\* line of fit: update_psf_params(**self.fitter_kwargs).
fit_finish(o, x) ==
    Only({update_psf_params(o1, o1.fitter_kwargs) : o1 \in {kwargs_update(o, FreeOnly(o, x))}})

(***************************************************************************)
(* SpecOpt: one OpticalWavefrontPSF.fit, from the constructed PSF through   *)
(* _fit_init and the callbacks the minimizer makes to the end of fit.      *)
(* SpecGrad: direct calls of chi2_gradient on a PSF after _fit_init.       *)
(***************************************************************************)
Algorithms == {"minuit", "lmfit", "scipy", "emcee"}

Responses == {"linear", "quadratic", "odd", "failing"}

\* The parameter vectors that users and minimizers choose from.
Candidates == { Array([i \in KeyIx |-> RInt(default_value(i) + d)]) : d \in {0, 5} }

\* A fix mask from what is fixed among the size keys and in each term.
Mask(sizes, z04, z05) ==
    Array([i \in KeyIx |-> IF ~IsZ(i) THEN i \in sizes
                     ELSE IF i < 7 THEN (i - 3) \in z04 ELSE (i - 6) \in z05])

FitMasks ==
    { Mask(sizes, {}, z05) : sizes \in {{}, {1, 2, 3}}, z05 \in {{}, {1}, {1, 2, 3}} }

GradMasks ==
    { Mask(sizes, z04, z05) : sizes \in {{}, {1, 2, 3}}, z04 \in SUBSET {1, 2, 3},
                              z05 \in {{}, {1}, {1, 2, 3}} }

\* The stars given to fit: star k at focal position (k % 3, (k + 1) % 3),
\* with the moments and the shape errors measured on it; the stars in
\* flagged fail the moment measurement.
StarList(flagged) ==
    Array([k \in 1..NStars |->
        [id |-> k,
         mom |-> <<RInt(4), 0, 0, 1, 0, 0, IF k \in flagged THEN 1 ELSE 0>>,
         err |-> Array([j \in Shapes |-> RInt(1)]), raises |-> "",
         fx |-> k % 3, fy |-> (k + 1) % 3, z0 |-> <<k - 1, 0>>,
         focal_x |-> None, focal_y |-> None, used_in_optical_wavefront |-> None]])

StarLists == { StarList(flagged) : flagged \in {{}, {NStars}} }

\* The fitter_kwargs values a user may configure: the defaults, or values
\* that differ from key to key.
StartValues == { Array([i \in KeyIx |-> RInt(default_value(i) + d * i)]) : d \in {0, 1} }

\* The vectors an optimizer may pass to a callback or return for the PSF o:
\* one entry per non-fixed key.
FreeCandidates(o) ==
    { Only({Array([r \in 1..Len(free) |-> RInt(default_value(free[r]) + d * r)]) :
            free \in {free_keys(o)}}) : d \in {1, 2} }

Guesses(o) == [r0 : {RInt(default_value(1) + 10)}, x : FreeCandidates(o)]

\* vals is the vector an optimizer passed or returned, args the parameters
\* by key that were made of it.
NoOptCall ==
    [op |-> "none", vals |-> None, args |-> None, calculate_all |-> FALSE, ret |-> None,
     grad |-> None]

OptCall(op, vals, args, r) ==
    [op |-> op, vals |-> vals, args |-> args, calculate_all |-> FALSE, ret |-> r.ret,
     grad |-> IF op \in {"_scipy_gradient", "_minuit_gradient"} THEN r.grad ELSE None]

StarIdle ==
    /\ model = [fastfit |-> TRUE, fmc |-> FALSE]
    /\ stars = <<>> /\ datas = <<>> /\ fits = <<>>
    /\ held = {} /\ call = NoCall /\ ncalls = 0 /\ shapes = <<>>

InitOpt ==
    /\ StarIdle
    /\ \E alg \in Algorithms, ug \in BOOLEAN, gs \in BOOLEAN, fk \in StartValues, fix \in FitMasks :
          psf = OpticalWavefrontPSF(0, alg, ug, gs, fk, fix)
    /\ render = "quadratic"
    /\ ocall = NoOptCall
    /\ pc = [phase |-> "constructed", ncb |-> 0, x0 |-> None]

\* fit: self._fit_init(stars, wcs, pointing), in which with guess_start
\* _analytic_chi2 turns the vector guess.x into vals; then the fit of
\* fitter_algorithm builds its start vector x0 and the minimizer starts.
FitInit ==
    /\ pc.phase = "constructed"
    /\ \E list \in StarLists,
          guess \in (IF psf.guess_start THEN Guesses(psf) ELSE {[r0 |-> None, x |-> None]}) :
          /\ psf' = fit_init(psf, list, guess, arange(Len(list)))
          /\ ocall' = IF psf.guess_start
                      THEN [NoOptCall EXCEPT !.op = "_fit_init", !.vals = guess.x,
                               !.args = analytic_vals([psf EXCEPT !.fitter_kwargs[1] = guess.r0],
                                                      guess.x)]
                      ELSE [NoOptCall EXCEPT !.op = "_fit_init"]
    /\ pc' = [phase |-> "minimize", ncb |-> 0, x0 |-> free_vector(psf')]
    /\ UNCHANGED <<render, starVars>>

\* The minimizer's callback named op with arguments args has come back as r.
Callback(op, r, vals, args) ==
    /\ psf' = r.o
    /\ ocall' = OptCall(op, vals, args, r)
    /\ pc' = [pc EXCEPT !.ncb = @ + 1]
    /\ UNCHANGED <<render, starVars>>

Minimizing(alg) == pc.phase = "minimize" /\ pc.ncb < MaxCallbacks /\ psf.algorithm = alg

ScipyChi2 ==
    /\ Minimizing("scipy")
    /\ \E vals \in FreeCandidates(psf) :
          \E r \in {scipy_chi2(psf, render, vals)}, args \in {FreeOnly(psf, vals)} :
             Callback("_scipy_chi2", r, vals, args)

ScipyGradient ==
    /\ Minimizing("scipy") /\ psf.use_gradient
    /\ \E vals \in FreeCandidates(psf) :
          \E r \in {scipy_gradient(psf, render, vals)},
             args \in {scipy_gradient_params(psf, vals)} :
             Callback("_scipy_gradient", r, vals, args)

MinuitChi2 ==
    /\ Minimizing("minuit")
    /\ \E vals \in Candidates :
          \E args \in {WithFixed(psf, vals)} :
             \E r \in {minuit_chi2(psf, render, args)} : Callback("_minuit_chi2", r, None, args)

MinuitGradient ==
    /\ Minimizing("minuit") /\ psf.use_gradient
    /\ \E vals \in Candidates :
          \E args \in {WithFixed(psf, vals)} :
             \E r \in {minuit_gradient(psf, render, args)} :
                Callback("_minuit_gradient", r, None, args)

LmfitResid ==
    /\ Minimizing("lmfit")
    /\ \E vals \in Candidates :
          \E args \in {WithFixed(psf, vals)} :
             \E r \in {lmfit_resid(psf, render, args)} : Callback("_lmfit_resid", r, None, args)

EmceeLnprob ==
    /\ Minimizing("emcee")
    /\ \E vals \in FreeCandidates(psf) :
          \E r \in {emcee_lnprob(psf, render, vals)}, args \in {FreeOnly(psf, vals)} :
             Callback("_emcee_lnprob", r, vals, args)

\* The minimizer returns x; fit stores it and updates the PSF.
FitFinish ==
    /\ pc.phase = "minimize"
    /\ \E x \in FreeCandidates(psf) :
          /\ psf' = fit_finish(psf, x)
          /\ ocall' = [NoOptCall EXCEPT !.op = "fit", !.vals = x]
    /\ pc' = [pc EXCEPT !.phase = "done"]
    /\ UNCHANGED <<render, starVars>>

NextOpt ==
    \/ FitInit \/ ScipyChi2 \/ ScipyGradient \/ MinuitChi2 \/ MinuitGradient
    \/ LmfitResid \/ EmceeLnprob \/ FitFinish

SpecOpt == InitOpt /\ [][NextOpt]_vars

InitGrad ==
    /\ StarIdle
    /\ \E fk \in Candidates, fix \in GradMasks :
          psf = fit_init(OpticalWavefrontPSF(0, "minuit", TRUE, FALSE, fk, fix), StarList({}),
                         [r0 |-> None, x |-> None], arange(NStars))
    /\ render \in Responses
    /\ ocall = [NoOptCall EXCEPT !.op = "_fit_init"]
    /\ pc = [phase |-> "direct", ncb |-> 0, x0 |-> None]

\* A direct call chi2_gradient(self._fit_stars, **args, calculate_all).  The
\* caller evaluates chi2 after its gradient calls (chi2 changes nothing in
\* the PSF, so a gradient call after it would be the call before it).
Chi2Gradient ==
    /\ pc.phase = "direct" /\ pc.ncb < MaxGradCalls /\ ocall.op # "chi2"
    /\ \E args \in Candidates, calculate_all \in BOOLEAN :
          \E g \in {chi2_gradient(psf, render, args, calculate_all)} :
             /\ psf' = g.o
             /\ ocall' = [op |-> "chi2_gradient", vals |-> None, args |-> args,
                          calculate_all |-> calculate_all, ret |-> g.gradients, grad |-> g]
    /\ pc' = [pc EXCEPT !.ncb = @ + 1]
    /\ UNCHANGED <<render, starVars>>

\* A direct call chi2(self._fit_stars, full=True) at the live parameters.
Chi2 ==
    /\ pc.phase = "direct"
    /\ \E r \in {chi2(psf, render)} :
          ocall' = [op |-> "chi2", vals |-> None, args |-> psf.live, calculate_all |-> FALSE,
                    ret |-> r, grad |-> None]
    /\ UNCHANGED <<psf, pc, render, starVars>>

NextGrad == Chi2Gradient \/ Chi2

SpecGrad == InitGrad /\ [][NextGrad]_vars

(***************************************************************************)
(* SpecSub: the stars of one optical fit, as OptAtmoPSF.fit runs it: the   *)
(* subsample and the cut of _fit_init, the minimizer, the end of           *)
(* OpticalWavefrontPSF.fit and the count of removed stars; and a second    *)
(* run of _fit_init on the same stars with the same configuration.         *)
(***************************************************************************)
\* A star given to fit: "flagged" fails the moment measurement (the fit in
\* hsm_error then raises RuntimeError from with_hsm), "modelflag" measures
\* cleanly but the moments of its rendered model are flagged (the fit in
\* hsm_error raises ModelFitError), "inferr" has shape errors that
\* overflowed to inf.
SubStar(k, kind) ==
    [id |-> k,
     mom |-> <<RInt(4), 0, 0, 1, 0, 0, IF kind = "flagged" THEN 1 ELSE 0>>,
     err |-> IF kind \in {"flagged", "modelflag"} THEN NaNRow
             ELSE IF kind = "inferr" THEN Array([j \in Shapes |-> Inf])
             ELSE Array([j \in Shapes |-> RInt(1)]),
     raises |-> IF kind = "flagged" THEN "RuntimeError"
                ELSE IF kind = "modelflag" THEN "ModelFitError" ELSE "",
     fx |-> k % 3, fy |-> (k + 1) % 3, z0 |-> <<k - 1, 0>>,
     focal_x |-> None, focal_y |-> None, used_in_optical_wavefront |-> None]

SubLists ==
    { Array([k \in 1..NStars |-> SubStar(k, kinds[k])]) :
         kinds \in [1..NStars -> {"good", "flagged", "modelflag", "inferr"}] }

\* What np.sort(np.random.choice(n, k, replace=False)) can give.
RandomChoices(n, k) == { SetToSeq(S) : S \in {T \in SUBSET (1..n) : Cardinality(T) = k} }

\* The PSF of these runs: scipy without gradient, nothing fixed, defaults.
SubPSF(n_fit_stars) ==
    OpticalWavefrontPSF(n_fit_stars, "scipy", FALSE, FALSE,
                        Array([i \in KeyIx |-> RInt(default_value(i))]), Mask({}, {}, {}))

SubGuess == [r0 |-> None, x |-> None]

InitSub ==
    /\ StarIdle
    /\ \E n \in 0..(NStars + 1), list \in SubLists :
          /\ psf = SubPSF(n)
          /\ pc = [phase |-> "constructed", ncb |-> 0, input |-> list,
                   choice |-> None, first |-> None]
    /\ render = "quadratic"
    /\ ocall = NoOptCall

\* self._fit_init(stars, wcs, pointing) on the PSF o, as run number run.
SubFitInitOn(o, phase) ==
    \E rnd \in RandomChoices(Len(pc.input),
                             IF o.n_fit_stars < Len(pc.input) THEN o.n_fit_stars ELSE 0) :
       \E choice \in {subsample(o.n_fit_stars, Len(pc.input), rnd)} :
          /\ psf' = fit_init(o, pc.input, SubGuess, rnd)
          /\ ocall' = [NoOptCall EXCEPT !.op = "_fit_init", !.args = choice]
          /\ pc' = [pc EXCEPT !.phase = phase, !.choice = choice, !.first = pc.choice]
          /\ UNCHANGED <<render, starVars>>

\* OptAtmoPSF.fit: self.optpsf.fit(...) begins with _fit_init.
SubFitInit == pc.phase = "constructed" /\ SubFitInitOn(psf, "minimize")

\* A second run: a PSF of the same configuration does _fit_init on the same
\* stars.
SecondFitInit ==
    /\ pc.phase = "minimize" /\ pc.ncb = 0
    /\ SubFitInitOn(SubPSF(psf.n_fit_stars), "second")

\* The minimizer evaluates chi2 (there is a star to fit).
SubScipyChi2 == Len(psf.fit_stars) > 0 /\ ScipyChi2

\* With no star left the first chi2 of the minimizer subtracts the (0, 3)
\* array of actual shapes from the empty array np.array([]) that
\* _measure_shapes gives for no stars, which numpy refuses with ValueError;
\* fit ends with it.
SubFitRaises ==
    /\ pc.phase = "minimize" /\ Len(psf.fit_stars) = 0
    /\ ocall' = [NoOptCall EXCEPT !.op = "fit", !.ret = "ValueError"]
    /\ pc' = [pc EXCEPT !.phase = "failed"]
    /\ UNCHANGED <<psf, render, starVars>>

\* The minimizer returns and OpticalWavefrontPSF.fit ends.
SubFitFinish == Len(psf.fit_stars) > 0 /\ pc.ncb > 0 /\ FitFinish

\* OptAtmoPSF.fit after self.optpsf.fit: the number of removed stars that
\* it logs.
nremoved(o) ==
    IF o.n_fit_stars # 0 THEN o.n_fit_stars - Len(o.fit_stars)
    ELSE Len(o.stars) - Len(o.fit_stars)

Nremoved ==
    /\ pc.phase = "done"
    /\ ocall' = [NoOptCall EXCEPT !.op = "OptAtmoPSF.fit", !.ret = nremoved(psf)]
    /\ pc' = [pc EXCEPT !.phase = "reported"]
    /\ UNCHANGED <<psf, render, starVars>>

\* A direct call _measure_shape_errors(stars) on the stars given to fit.
MeasureShapeErrors ==
    /\ pc.phase = "constructed"
    /\ ocall' = [NoOptCall EXCEPT !.op = "_measure_shape_errors",
                                  !.ret = measure_shape_errors(pc.input, 1, <<>>)]
    /\ UNCHANGED <<psf, pc, render, starVars>>

NextSub ==
    \/ SubFitInit \/ SecondFitInit \/ SubScipyChi2 \/ SubFitFinish \/ SubFitRaises
    \/ Nremoved \/ MeasureShapeErrors

SpecSub == InitSub /\ [][NextSub]_vars

(***************************************************************************)
(* SpecIO: the construction of an OpticalWavefrontPSF from the user's      *)
(* fitter_algorithm and fitter_kwargs, disable_atmosphere, and the table   *)
(* that _finish_write writes and _finish_read reads into a new object.     *)
(***************************************************************************)
\* OpticalWavefrontPSF.__init__: the default error_ entries of
\* fitter_kwargs (1e-2; 1e-4 for the x and y keys of a Zernike term).
default_error(i) == IF IsZ(i) /\ Suffix(i) # "d" THEN 10 ELSE 1000

\* The fitter_kwargs argument of the constructor: values, fix_ flags and
\* error_ entries by key, and limit_ entries, None where the user gives none.
UserKwargs(vals, fix, limit_r0, err) ==
    [vals |-> vals, fix |-> fix,
     limit |-> Array([i \in KeyIx |-> IF i = 1 THEN limit_r0 ELSE None]),
     error |-> Array([i \in KeyIx |-> RInt(default_error(i) + err)])]

\* OpticalWavefrontPSF.__init__: an unknown fitter_algorithm raises; the
\* user's fitter_kwargs are merged over the defaults as they are, and
\* update_psf_params is called with the result.
init(fitter_algorithm, user) ==
    IF fitter_algorithm \notin Algorithms
    THEN [raised |-> "NotImplementedError", o |-> None]
    ELSE [raised |-> "",
          o |-> [limit |-> Array([i \in KeyIx |-> IF user.limit[i] # None THEN user.limit[i]
                                                  ELSE limit(i)]),
                 error |-> user.error,
                 step_sizes |-> step_sizes,
                 weights |-> weights]
                @@ OpticalWavefrontPSF(0, fitter_algorithm, FALSE, FALSE, user.vals, user.fix)]

\* OpticalWavefrontPSF.disable_atmosphere
disable_atmosphere(o) ==
    [update_psf_params(o, Array([i \in KeyIx |-> IF IsZ(i) THEN NaN ELSE None]))
       EXCEPT !.fitter_kwargs = Array([i \in KeyIx |-> IF IsZ(i) THEN @[i] ELSE None])]

\* A value assigned to a float column of a numpy table: None becomes nan.
float64(v) == IF v = None THEN NaN ELSE v

F4Mantissa == 8388608

\* The power of two s with F4Mantissa <= r * s, for r > 0.
RECURSIVE f4_scale(_, _)
f4_scale(r, s) == IF r[1] * s >= F4Mantissa * r[2] THEN s ELSE f4_scale(r, 2 * s)

\* A positive value assigned to a '3f4' column: the nearest number with a
\* significand of 24 bits.
float32(r) ==
    IF r[2] = 0 \/ r[1] <= 0 THEN r
    ELSE Only({Rat((2 * r[1] * s + r[2]) \div (2 * r[2]), s) : s \in {f4_scale(r, 1)}})

\* OpticalWavefrontPSF._finish_write: the row of the table extname_solution,
\* with weights and, for every key, the columns key, fix_key and error_key.
finish_write(o) ==
    [weights |-> Array([j \in Shapes |-> float32(o.weights[j])]),
     vals |-> Array([i \in KeyIx |-> float64(o.fitter_kwargs[i])]),
     fix |-> o.fix,
     error |-> Array([i \in KeyIx |-> float64(o.error[i])])]

\* OpticalWavefrontPSF._finish_read on the object o, with the row data.
finish_read(o, data) ==
    [update_psf_params([o EXCEPT !.weights = data.weights,
                                 !.fitter_kwargs = data.vals,
                                 !.fix = data.fix,
                                 !.error = data.error],
                       data.vals)
       EXCEPT !.n_iter = 0]

\* PSF.read: the class is constructed from the kwargs that were written
\* (fitter_algorithm among them, fitter_kwargs and weights not), and
\* _finish_read is called on the new object.
read(fitter_algorithm, data) ==
    finish_read(init(fitter_algorithm,
                     UserKwargs(Array([i \in KeyIx |-> RInt(default_value(i))]),
                                Array([i \in KeyIx |-> FALSE]), None, 0)).o,
                data)

IOMasks == { Mask({}, {}, {}), Mask({1, 2, 3}, {}, {1}) }

\* limit_r0 as the user may give it: not at all, a pair, or a pair with the
\* lower bound above the upper.
UserLimits == { None, <<2000, 40000>>, <<50000, 1000>> }

InvalidBound(user) == \E i \in KeyIx : user.limit[i] # None /\ user.limit[i][1] > user.limit[i][2]

InitIO ==
    /\ StarIdle
    /\ psf = None
    /\ render = "quadratic"
    /\ ocall = NoOptCall
    /\ pc = [phase |-> "new", ncb |-> 0, x0 |-> None]

\* OpticalWavefrontPSF(fitter_algorithm=..., fitter_kwargs=...)
Construct ==
    /\ pc.phase = "new"
    /\ \E alg \in Algorithms \cup {"powell"}, vals \in StartValues, fix \in IOMasks,
          lim \in UserLimits, err \in {0, 5} :
          \E user \in {UserKwargs(vals, fix, lim, err)} :
             \E r \in {init(alg, user)} :
                /\ psf' = r.o
                /\ ocall' = [NoOptCall EXCEPT !.op = "__init__",
                                              !.args = [fitter_algorithm |-> alg, user |-> user],
                                              !.ret = r.raised]
                /\ pc' = [pc EXCEPT !.phase = IF r.raised = "" THEN "built" ELSE "failed"]
    /\ UNCHANGED <<render, starVars>>

DisableAtmosphere ==
    /\ pc.phase = "built" /\ psf.fitter_kwargs[1] # None
    /\ psf' = disable_atmosphere(psf)
    /\ ocall' = [NoOptCall EXCEPT !.op = "disable_atmosphere"]
    /\ UNCHANGED <<pc, render, starVars>>

\* psf.write(...): _finish_write
FinishWrite ==
    /\ pc.phase = "built"
    /\ ocall' = [NoOptCall EXCEPT !.op = "_finish_write", !.ret = finish_write(psf)]
    /\ pc' = [pc EXCEPT !.phase = "written"]
    /\ UNCHANGED <<psf, render, starVars>>

\* PSF.read(...) of what was written; ocall.ret is the object read.
FinishRead ==
    /\ pc.phase = "written"
    /\ ocall' = [NoOptCall EXCEPT !.op = "_finish_read", !.args = ocall.ret,
                                  !.ret = read(psf.algorithm, ocall.ret)]
    /\ pc' = [pc EXCEPT !.phase = "read"]
    /\ UNCHANGED <<psf, render, starVars>>

(***************************************************************************)
(* The persistence of a GSObjectModel: Model.write hands self.kwargs to    *)
(* write_kwargs, Model.read builds the class from what read_kwargs         *)
(* returns.  A Python value is None or a pair of its type and its value.   *)
(***************************************************************************)
PyBool(b) == <<"bool", b>>

PyInt(n) == <<"int", n>>

PyFloat(r) == <<"float", r>>

PyStr(s) == <<"str", s>>

\* bool(value)
Truthy(v) ==
    IF v[1] = "bool" THEN v[2] ELSE IF v[1] = "int" THEN v[2] # 0 ELSE v # None

\* a == b for two Python scalars: a bool compares as the integer 0 or 1.
AsNumber(v) == IF v[1] = "bool" THEN PyInt(IF v[2] THEN 1 ELSE 0) ELSE v

PyEq(a, b) == AsNumber(a) = AsNumber(b)

\* galsim.Gaussian(sigma=1.0, gsparams=...), Kolmogorov, Moffat
galsim_object(type, beta, gsparams) ==
    <<"galsim", [type |-> type, beta |-> beta, gsparams |-> gsparams, flux |-> 1]>>

\* repr(gsobj), and eval of that string
repr(gsobj) == PyStr(gsobj)

eval(s) == s[2]

\* util.make_dtype and util.adjust_value: the column type that a value is
\* written with.  np.dtype(bool).kind is 'b', which is among the
\* characters of np.typecodes['AllInteger'], so a bool goes into an
\* integer column; a str is encoded to bytes.
adjust_value(v) ==
    IF v[1] = "bool" THEN PyInt(IF v[2] THEN 1 ELSE 0)
    ELSE IF v[1] = "str" THEN <<"bytes", v[2]>>
    ELSE v

\* util.write_kwargs: one column per entry whose value is not None.
write_kwargs(kwargs) ==
    [key \in {k \in DOMAIN kwargs : kwargs[k] # None} |-> adjust_value(kwargs[key])]

\* util.read_kwargs: every column of the row, byte strings decoded.
read_kwargs(data) ==
    [key \in DOMAIN data |-> IF data[key][1] = "bytes" THEN PyStr(data[key][2]) ELSE data[key]]

\* GSObjectModel.__init__
GSObjectModel(gsobj, fastfit, force_model_center, include_pixel) ==
    Only({ [kwargs |-> [gsobj |-> repr(g), fastfit |-> fastfit,
                        force_model_center |-> force_model_center,
                        include_pixel |-> include_pixel],
            gsobj |-> [g EXCEPT ![2].flux = 1],
            fastfit |-> fastfit,
            force_model_center |-> force_model_center,
            method |-> IF Truthy(include_pixel) THEN "auto" ELSE "no_pixel",
            nparams |-> IF Truthy(force_model_center) THEN 3 ELSE 5] :
           g \in {IF gsobj[1] = "str" THEN eval(gsobj) ELSE gsobj} })

\* The kwargs without the entry key (del self.kwargs['gsobj']).
Del(kwargs, key) == [k \in DOMAIN kwargs \ {key} |-> kwargs[k]]

\* Gaussian.__init__, Kolmogorov.__init__
Named(type, fastfit, force_model_center, include_pixel, gsparams) ==
    Only({ [m EXCEPT !.kwargs = Del(@, "gsobj")] :
           m \in {GSObjectModel(galsim_object(type, None, gsparams), fastfit,
                                force_model_center, include_pixel)} })

\* Moffat.__init__
Moffat(beta, trunc, fastfit, force_model_center, include_pixel, gsparams) ==
    Only({ [m EXCEPT !.kwargs = [beta |-> beta, trunc |-> trunc] @@ Del(@, "gsobj")] :
           m \in {GSObjectModel(galsim_object("Moffat", <<beta, trunc>>, gsparams), fastfit,
                                force_model_center, include_pixel)} })

\* A gsparams argument: the default, or a galsim.GSParams of the user.
GSParams == {None, PyStr("GSParams(folding_threshold=1.e-3)")}

\* The models a user may build: a GSObjectModel of a galsim object of flux 1
\* or 2, or one of the named classes.
Models ==
    UNION { { [type |-> "GSObjectModel",
               m |-> GSObjectModel([galsim_object("Gaussian", None, gsparams) EXCEPT ![2].flux = flux],
                                   PyBool(fastfit), PyBool(fmc), PyBool(pix))],
              [type |-> "Gaussian",
               m |-> Named("Gaussian", PyBool(fastfit), PyBool(fmc), PyBool(pix), gsparams)],
              [type |-> "Kolmogorov",
               m |-> Named("Kolmogorov", PyBool(fastfit), PyBool(fmc), PyBool(pix), gsparams)],
              [type |-> "Moffat",
               m |-> Moffat(PyFloat(Rat(5, 2)), PyFloat(RInt(0)), PyBool(fastfit), PyBool(fmc),
                            PyBool(pix), gsparams)] } :
            fastfit \in BOOLEAN, fmc \in BOOLEAN, pix \in BOOLEAN, gsparams \in GSParams,
            flux \in {1, 2} }

\* Model.read: the class named in the file is built from the kwargs read;
\* an argument that is not in kwargs has its default.
model_read(type, kwargs) ==
    IF type = "GSObjectModel"
    THEN GSObjectModel(kwargs.gsobj, kwargs.fastfit, kwargs.force_model_center,
                       kwargs.include_pixel)
    ELSE IF type = "Moffat"
    THEN Moffat(kwargs.beta, kwargs.trunc, kwargs.fastfit, kwargs.force_model_center,
                kwargs.include_pixel, None)
    ELSE Named(type, kwargs.fastfit, kwargs.force_model_center, kwargs.include_pixel, None)

\* model.write(f, 'psf_model'): ocall.args is the model, ocall.ret the row.
WriteModel ==
    /\ pc.phase = "new"
    /\ \E tm \in Models :
          ocall' = [NoOptCall EXCEPT !.op = "Model.write", !.args = tm,
                                     !.ret = write_kwargs(tm.m.kwargs)]
    /\ pc' = [pc EXCEPT !.phase = "model written"]
    /\ UNCHANGED <<psf, render, starVars>>

\* piff.GSObjectModel.read(f, 'psf_model'): ocall.ret is the model read.
ReadModel ==
    /\ pc.phase = "model written"
    /\ \E kwargs \in {read_kwargs(ocall.ret)} :
          ocall' = [NoOptCall EXCEPT !.op = "Model.read", !.args = ocall.args,
                                     !.vals = kwargs,
                                     !.ret = model_read(ocall.args.type, kwargs)]
    /\ pc' = [pc EXCEPT !.phase = "model read"]
    /\ UNCHANGED <<psf, render, starVars>>

NextIO == Construct \/ DisableAtmosphere \/ FinishWrite \/ FinishRead \/ WriteModel \/ ReadModel

SpecIO == InitIO /\ [][NextIO]_vars

(***************************************************************************)
(* SpecLog: one OpticalWavefrontPSF.fit run twice on equal objects with    *)
(* the same stars and the same minimizer, psf.quiet with logger=None and   *)
(* psf.logged with a logger.  The minimizer is given the same values by    *)
(* both runs, so it makes the same callbacks and returns the same x.       *)
(***************************************************************************)
\* The parameters by key that minuit and lmfit pass for the free vector vals.
ByKeyWithFixed(o, vals) ==
    Array([i \in KeyIx |-> IF o.fix[i] THEN o.fitter_kwargs[i] ELSE vals[key_i(o, i)]])

\* The callback that the minimizer of o.algorithm makes at vals.
callback(o, kind, vals) ==
    IF o.algorithm = "scipy" THEN scipy_chi2(o, kind, vals)
    ELSE IF o.algorithm = "emcee" THEN emcee_lnprob(o, kind, vals)
    ELSE IF o.algorithm = "minuit" THEN minuit_chi2(o, kind, ByKeyWithFixed(o, vals))
    ELSE lmfit_resid(o, kind, ByKeyWithFixed(o, vals))

\* The fit of o.algorithm up to the start of its minimizer: with a logger
\* _scipy_fit formats self._scipy_chi2(x0) into its first message.
fit_start(o, kind, logger) ==
    IF o.algorithm = "scipy" /\ logger THEN scipy_chi2(o, kind, free_vector(o)).o ELSE o

\* fit from the return of the minimizer with x on.  With a logger _scipy_fit
\* formats self._scipy_chi2(res.x) into its last message.  _lmfit_fit
\* assigns logstring only with a logger and appends to it whenever
\* results.errorbars is true: without a logger that raises at the first free
\* key, after fitter_kwargs[key] was set.  Otherwise fitter_kwargs takes x
\* and fit ends with update_psf_params.
fit_end(o, kind, x, logger, errorbars) ==
    IF o.algorithm = "scipy" /\ logger
    THEN [raised |-> "", o |-> fit_finish(scipy_chi2(o, kind, x).o, x)]
    ELSE IF o.algorithm = "lmfit" /\ errorbars /\ ~logger /\ Len(free_keys(o)) > 0
    THEN [raised |-> "UnboundLocalError",
          o |-> [o EXCEPT !.fitter_kwargs[free_keys(o)[1]] = x[1]]]
    ELSE [raised |-> "", o |-> fit_finish(o, x)]

InitLog ==
    /\ StarIdle
    /\ \E alg \in Algorithms, fk \in StartValues, fix \in FitMasks :
          \E o \in {OpticalWavefrontPSF(0, alg, FALSE, FALSE, fk, fix)} :
             psf = [quiet |-> o, logged |-> o]
    /\ render = "quadratic"
    /\ ocall = NoOptCall
    /\ pc = [phase |-> "constructed", ncb |-> 0, x0 |-> None]

\* fit(stars, wcs, pointing, logger): _fit_init and the start of the fit of
\* fitter_algorithm.
LogFitInit ==
    /\ pc.phase = "constructed"
    /\ \E list \in StarLists :
          psf' = [quiet |-> fit_start(fit_init(psf.quiet, list, SubGuess, arange(Len(list))),
                                      render, FALSE),
                  logged |-> fit_start(fit_init(psf.logged, list, SubGuess, arange(Len(list))),
                                       render, TRUE)]
    /\ ocall' = [NoOptCall EXCEPT !.op = "_fit_init"]
    /\ pc' = [phase |-> "minimize", ncb |-> 0, x0 |-> free_vector(psf'.quiet)]
    /\ UNCHANGED <<render, starVars>>

\* The minimizer calls back at vals, in both runs.
LogCallback ==
    /\ pc.phase = "minimize" /\ pc.ncb < MaxCallbacks
    /\ \E vals \in FreeCandidates(psf.quiet) :
          \E q \in {callback(psf.quiet, render, vals)},
             l \in {callback(psf.logged, render, vals)} :
             /\ psf' = [quiet |-> q.o, logged |-> l.o]
             /\ ocall' = [NoOptCall EXCEPT !.op = "callback", !.vals = vals,
                                           !.ret = [quiet |-> q.ret, logged |-> l.ret]]
    /\ pc' = [pc EXCEPT !.ncb = @ + 1]
    /\ UNCHANGED <<render, starVars>>

\* The minimizer returns x, with or without error bars; both runs go on to
\* the end of fit.
LogFitFinish ==
    /\ pc.phase = "minimize"
    /\ \E x \in FreeCandidates(psf.quiet), errorbars \in BOOLEAN :
          \E q \in {fit_end(psf.quiet, render, x, FALSE, errorbars)},
             l \in {fit_end(psf.logged, render, x, TRUE, errorbars)} :
             /\ psf' = [quiet |-> q.o, logged |-> l.o]
             /\ ocall' = [NoOptCall EXCEPT !.op = "fit", !.vals = x,
                                           !.args = [errorbars |-> errorbars],
                                           !.ret = [quiet |-> q.raised, logged |-> l.raised]]
    /\ pc' = [pc EXCEPT !.phase = "done"]
    /\ UNCHANGED <<render, starVars>>

NextLog == LogFitInit \/ LogCallback \/ LogFitFinish

SpecLog == InitLog /\ [][NextLog]_vars

(***************************************************************************)
(* Properties of the stars of the optical fit (checked under SpecSub).     *)
(***************************************************************************)
FitIds == {psf.fit_stars[r].id : r \in 1..Len(psf.fit_stars)}

NonFinite(row) == \E j \in Shapes : IsNaN(row[j]) \/ IsInf(row[j])

\* C12 as stated: after _fit_init no chosen star whose measured shape or
\* shape error has a NaN or infinite component is in _fit_stars, _shapes and
\* _errors hold finite rows only, and a star's used_in_optical_wavefront is
\* true exactly when the star is in _fit_stars.
C12_NonFiniteStarsCut ==
    ocall.op = "_fit_init" =>
       /\ \A r \in 1..Len(pc.choice) :
             \A st \in {psf.stars[pc.choice[r]]} :
                (NonFinite(measure_shape(st)) \/ NonFinite(st.err)) => st.id \notin FitIds
       /\ \A r \in 1..Len(psf.fit_stars) :
             ~NonFinite(psf.shapes[r]) /\ ~NonFinite(psf.errors[r])
       /\ \A k \in 1..Len(psf.stars) :
             psf.stars[k].used_in_optical_wavefront = (psf.stars[k].id \in FitIds)

\* C13 as stated: the number of removed stars that OptAtmoPSF.fit reports is
\* the number of chosen stars that _fit_init cut, whatever n_fit_stars is.
C13_ReportedEqualsFiltered ==
    ocall.op = "OptAtmoPSF.fit" => ocall.ret = Len(pc.choice) - Len(psf.fit_stars)

\* C20 as stated: a second run on the same stars with the same configuration
\* chooses the same stars as the first; the subsample has n_fit_stars stars
\* when 0 < n_fit_stars < number of stars and else is the whole list, and it
\* is in the order of the input.
C20_SubsampleReproducible ==
    /\ pc.phase = "second" => pc.choice = pc.first
    /\ ocall.op = "_fit_init" =>
          /\ Len(pc.choice) =
                (IF 0 < psf.n_fit_stars /\ psf.n_fit_stars < Len(pc.input)
                 THEN psf.n_fit_stars ELSE Len(pc.input))
          /\ \A a, b \in 1..Len(pc.choice) : a < b => pc.choice[a] < pc.choice[b]

(***************************************************************************)
(* Properties of OpticalWavefrontPSF.fit (checked under SpecOpt).          *)
(***************************************************************************)
Chi2Callbacks == {"_scipy_chi2", "_minuit_chi2", "_lmfit_resid", "_emcee_lnprob"}

\* C6 as stated: at every chi-square evaluation a backend makes during fit
\* (after _fit_init, after gradient calls), the live value of every fixed
\* parameter is its fixed value fitter_kwargs[key].
C6_FixedParametersAtFixedValue ==
    (ocall.op \in Chi2Callbacks /\ ocall.ret # NegInf) =>
       \A i \in KeyIx : psf.fix[i] => psf.live[i] = psf.fitter_kwargs[i]

(***************************************************************************)
(* Properties of chi2_gradient (checked under SpecGrad).                   *)
(***************************************************************************)
GradientCall == ocall.op = "chi2_gradient"

FitStarIx == 1..Len(psf.fit_stars)

\* The key zNNd of the term of Zernike key i.
DeltaOf(i) == i - ((i - 4) % 3)

FreeTilt(i) == IsZ(i) /\ Suffix(i) \in {"x", "y"} /\ ~psf.fix[i]

\* The place in stencils of the stencil of key i, in a call that stencilled it.
StencilIx(i) ==
    Cardinality({k \in 1..i : stencil_gradient(k, psf.fix, ocall.calculate_all) = "stencil"})

\* The per-star, per-shape chi-square terms (chi2's chi2_l) with the live
\* parameters at args and key i moved by term steps.
chi2_l_at(i, term) ==
    Only({Array([s \in 1..Len(c) |-> Array([j \in Shapes |-> RMul(c[s][j], c[s][j])])]) :
          c \in {chi2(update_psf_params(psf,
                         [ocall.args EXCEPT ![i] = RAdd(@, RInt(term * step_sizes[i]))]),
                      render).chi_l}})

\* C7 as stated: the entry of a stencilled key is (c(p+h) - c(p-h)) / (2h)
\* for every star and shape, c being the chi-square term that chi2 sums.
C7_StencilOfChiSquare ==
    GradientCall =>
       \A i \in KeyIx :
          stencil_gradient(i, psf.fix, ocall.calculate_all) = "stencil" =>
             ocall.grad.gradients_l[i] = slope(chi2_l_at(i, 1), chi2_l_at(i, -1), step_sizes[i])

\* C8 as stated: with calculate_all false the entry of a free zNNx is the
\* star's focal x times the entry of zNNd, and that of a free zNNy its
\* focal y times it.
C8_ShortcutByOwnCoordinate ==
    (GradientCall /\ ~ocall.calculate_all) =>
       \A i \in KeyIx : FreeTilt(i) =>
          \A s \in FitStarIx, j \in Shapes :
             ocall.grad.gradients_l[i][s][j] =
                RMul(RInt(IF Suffix(i) = "x" THEN psf.fit_stars[s].focal_x
                          ELSE psf.fit_stars[s].focal_y),
                     ocall.grad.gradients_l[DeltaOf(i)][s][j])

\* C8 amended: with calculate_all false the entry of a free zNNx is the
\* star's focal y times the entry of zNNd of the same term, and that of a
\* free zNNy the star's focal x times it, whichever keys of the term are
\* fixed.
C8_ShortcutByCrossedCoordinate ==
    (GradientCall /\ ~ocall.calculate_all) =>
       \A i \in KeyIx : FreeTilt(i) =>
          \A s \in FitStarIx, j \in Shapes :
             ocall.grad.gradients_l[i][s][j] =
                RMul(RInt(IF Suffix(i) = "x" THEN psf.fit_stars[s].focal_y
                          ELSE psf.fit_stars[s].focal_x),
                     ocall.grad.gradients_l[DeltaOf(i)][s][j])

\* C8 witness: a call with calculate_all false, z04d fixed and z04x free,
\* where a star off the diagonal of the focal plane has a nonzero z04x entry.
C8_Witness ==
    /\ GradientCall /\ ~ocall.calculate_all
    /\ psf.fix[4] /\ ~psf.fix[5]
    /\ \E s \in FitStarIx, j \in Shapes :
          /\ psf.fit_stars[s].focal_x # psf.fit_stars[s].focal_y
          /\ ocall.grad.gradients_l[5][s][j][1] # 0

\* The entries of the free zNNx and zNNy keys, per star and summed, are
\* those of the call with the same arguments and calculate_all true.
ShortcutMatchesStencil ==
    \A g \in {chi2_gradient(psf, render, ocall.args, TRUE)} :
       \A i \in KeyIx : FreeTilt(i) =>
          /\ ocall.grad.gradients_l[i] = g.gradients_l[i]
          /\ ocall.grad.gradients[i] = g.gradients[i]

C10_FixedGradientZero ==
    (GradientCall /\ ~ocall.calculate_all) =>
       \A i \in KeyIx : psf.fix[i] => ocall.grad.gradients[i] = RInt(0)

\* C10 amended: with calculate_all false the entries of a fixed parameter
\* are zero, except for a fixed zNNd whose zNNx or zNNy is free: that key is
\* stencilled and its entries are the slope of its stencil.
C10_FixedGradientZeroUnlessTiltFree ==
    (GradientCall /\ ~ocall.calculate_all) =>
       \A i \in KeyIx : psf.fix[i] =>
          IF IsZ(i) /\ Suffix(i) = "d" /\ (~psf.fix[i + 1] \/ ~psf.fix[i + 2])
          THEN \A st \in {ocall.grad.stencils[StencilIx(i)]} :
                  ocall.grad.gradients_l[i] = slope(st[1], st[2], step_sizes[i])
          ELSE /\ ocall.grad.gradients_l[i] = zeros(Len(psf.fit_stars))
               /\ ocall.grad.gradients[i] = RInt(0)

\* C10 witness: calculate_all false, z04d fixed with z04x free, and a nonzero
\* gradient entry returned for z04d.
C10_Witness ==
    /\ GradientCall /\ ~ocall.calculate_all
    /\ psf.fix[4] /\ ~psf.fix[5]
    /\ ocall.grad.gradients[4][1] # 0

(***************************************************************************)
(* Stars that chi2 leaves out (checked under SpecGrad).                    *)
(***************************************************************************)
\* The stars chi2 leaves out of its sums, given the chi_l it computed: those
\* with a NaN among their three residuals.
ExcludedIn(chi_l) == {s \in 1..Len(chi_l) : HasNaN(chi_l[s])}

\* The stars left out by a chi2 evaluation that chi2_gradient made for the
\* entry of key i: the two evaluations of the key's own stencil, or of the
\* zNNd stencil whose slope the shortcut scales; none for a zero entry.
ExcludedFor(i) ==
    LET how == stencil_gradient(i, psf.fix, ocall.calculate_all)
        k == IF how = "shortcut" THEN DeltaOf(i) ELSE i
    IN  IF how = "zeros" THEN {}
        ELSE Only({ExcludedIn(st[1]) \cup ExcludedIn(st[2]) :
                   st \in {ocall.grad.stencils[StencilIx(k)]}})

\* sum over the stars outside E of f[s], with no NaN skipped.
SumOutside(E, f) == RSum(Array([s \in FitStarIx |-> IF s \in E THEN RInt(0) ELSE f[s]]))

\* C11: a star with a NaN among its three residuals adds nothing to the
\* chi-square that chi2 sums and is not counted in dof, and a star left out
\* by a chi2 evaluation made for a gradient entry adds nothing to that entry:
\* each sum is the plain sum over the other stars.
C11_ExcludedStarsContributeZero ==
    /\ ocall.op = "chi2" =>
          \A E \in {ExcludedIn(ocall.ret.chi_l)} :
             /\ ocall.ret.dof = Len(psf.fit_stars) - Cardinality(E)
             /\ \A j \in Shapes :
                   ocall.ret.chi2[j] =
                      SumOutside(E, Array([s \in FitStarIx |->
                                     RMul(ocall.ret.chi_l[s][j], ocall.ret.chi_l[s][j])]))
             /\ ocall.ret.unreduced_chi2 =
                   RDiv(RSum(Array([j \in Shapes |-> RMul(weights[j], ocall.ret.chi2[j])])),
                        RSum(weights))
    /\ GradientCall =>
          \A i \in KeyIx :
             ocall.grad.gradients[i] =
                RDiv(RSum(Array([j \in Shapes |->
                        RMul(weights[j],
                             SumOutside(ExcludedFor(i),
                                        Array([s \in FitStarIx |->
                                                  ocall.grad.gradients_l[i][s][j]])))])),
                     RSum(weights))

\* C11 witness: a gradient call in which one star was left out by a chi2
\* evaluation made for the r0 entry while another star gave that entry a
\* nonzero term.
C11_Witness ==
    /\ GradientCall
    /\ ExcludedFor(1) # {}
    /\ \E s \in FitStarIx \ ExcludedFor(1), j \in Shapes :
          ocall.grad.gradients_l[1][s][j][1] # 0

(***************************************************************************)
(* The order of the free-parameter vector (checked under SpecOpt).         *)
(***************************************************************************)
\* The number of non-fixed keys.
NFree == Cardinality({i \in KeyIx : ~psf.fix[i]})

\* The r-th non-fixed key of self.keys.
NthFree(r) ==
    CHOOSE i \in KeyIx : ~psf.fix[i] /\ Cardinality({j \in 1..i : ~psf.fix[j]}) = r

\* Position r of the vector vals is the r-th non-fixed key in the parameters
\* by key.
ByKey(vals, byKey) ==
    /\ Len(vals) = NFree
    /\ \A r \in 1..NFree : byKey[NthFree(r)] = vals[r]

\* C19: position r of the free-parameter vector is the r-th non-fixed key of
\* self.keys wherever the vector is built or read: the start vector x0, the
\* vals of the analytic cost and the write-back of the analytic result, the
\* parameters _scipy_chi2 stores, the parameters _scipy_gradient hands to
\* chi2_gradient and the gradients it selects, and the write-back of the
\* optimizer's result; fixed keys keep the value of fitter_kwargs; and
\* keys[i] goes with step_sizes[i]: 1e-4 for the sizes, 1e-3 for zNNd, 1e-5
\* for zNNx and zNNy, which is the step of the stencil of key i.
C19_FreeVectorOrder ==
    /\ Len(step_sizes) = Len(keys)
    /\ \A i \in KeyIx :
          step_sizes[i] = (IF ~IsZ(i) THEN 10 ELSE IF Suffix(i) = "d" THEN 100 ELSE 1)
    /\ ocall.op = "_fit_init" =>
          /\ ByKey(pc.x0, psf.fitter_kwargs)
          /\ ocall.vals # None =>
                /\ ByKey(ocall.vals, ocall.args)
                /\ ByKey(ocall.vals, psf.fitter_kwargs)
                /\ \A i \in KeyIx : psf.fix[i] => ocall.args[i] = psf.fitter_kwargs[i]
    /\ ocall.op = "_scipy_chi2" =>
          /\ ByKey(ocall.vals, ocall.args)
          /\ ByKey(ocall.vals, psf.fitter_kwargs)
    /\ ocall.op = "_scipy_gradient" =>
          /\ ByKey(ocall.vals, ocall.args)
          /\ \A i \in KeyIx : psf.fix[i] => ocall.args[i] = psf.fitter_kwargs[i]
          /\ ByKey(ocall.ret, ocall.grad.gradients)
          /\ \A i \in KeyIx :
                stencil_gradient(i, psf.fix, FALSE) = "stencil" =>
                   \A st \in {ocall.grad.stencils[StencilIx(i)]} :
                      ocall.grad.gradients_l[i] = slope(st[1], st[2], step_sizes[i])
    /\ ocall.op = "fit" => ByKey(ocall.vals, psf.fitter_kwargs)

\* C19 witness: with the size keys fixed, _scipy_gradient got a vector whose
\* first two entries differ, and its first entry went to z04d.
C19_Witness ==
    /\ ocall.op = "_scipy_gradient"
    /\ psf.fix[1] /\ ~psf.fix[4] /\ psf.fix[7] /\ ~psf.fix[8]
    /\ ocall.vals[1] # ocall.vals[2]
    /\ ocall.args[4] = ocall.vals[1]
    /\ ocall.args[8] = ocall.vals[4]

(***************************************************************************)
(* _n_iter and the live parameters across the calls of a fit.              *)
(***************************************************************************)
GradientCallbacks == {"_scipy_gradient", "_minuit_gradient"}

\* C22 as stated: _n_iter equals the number of update_psf_params calls made
\* since it was set to zero, those made inside chi2_gradient included.
C22_NIterCountsEveryUpdate ==
    psf # None => psf.n_iter = psf.update_calls

\* C22 amended: every update_psf_params call adds one to _n_iter and
\* chi2_gradient takes one off after each of the two updates of a stencil, so
\* a gradient callback leaves _n_iter as it was while making two update calls
\* per stencilled key, every chi-square callback and the end of fit add
\* exactly one, _fit_init adds one when it runs the analytic guess, and
\* _n_iter never exceeds the number of update calls.
C22_NIterCountsUpdatesOutsideGradient ==
    [][ (psf # None /\ psf' # psf) =>
          LET calls == psf'.update_calls - psf.update_calls
              inside == IF ocall'.op \in GradientCallbacks
                        THEN 2 * Len(ocall'.grad.stencils) ELSE 0
          IN /\ psf'.n_iter - psf.n_iter = calls - inside
             /\ psf'.n_iter <= psf'.update_calls
             /\ ocall'.op \in GradientCallbacks => calls = inside
             /\ ocall'.op \in Chi2Callbacks => calls = (IF ocall'.ret = NegInf THEN 0 ELSE 1)
             /\ ocall'.op = "fit" => calls = 1
             /\ ocall'.op = "_fit_init" => calls = (IF psf.guess_start THEN 1 ELSE 0) ]_vars

\* C22 witness: a gradient callback has stencilled a key, and _n_iter is
\* below the number of update calls made.
C22_Witness ==
    /\ ocall.op \in GradientCallbacks
    /\ Len(ocall.grad.stencils) > 0
    /\ psf.n_iter < psf.update_calls

\* C28 as stated: when chi2_gradient returns, the live PSF parameters are
\* the ones it was called with, for every fix mask.
C28_GradientRestoresLiveParameters ==
    [][ ocall'.op = "chi2_gradient" => psf'.live = psf.live ]_vars

(***************************************************************************)
(* _measure_shape_errors (checked under SpecSub).                          *)
(***************************************************************************)
\* C23: _measure_shape_errors returns one row per input star in input order:
\* the NaN row for a star whose error propagation raises ValueError,
\* ModelFitError or RuntimeError, the computed errors for every other star,
\* those after a failing star included; it raises nothing itself.
C23_OneErrorRowPerStar ==
    ocall.op = "_measure_shape_errors" =>
       /\ ocall.ret.raised = ""
       /\ Len(ocall.ret.errors) = Len(pc.input)
       /\ \A k \in 1..Len(pc.input) :
             ocall.ret.errors[k] =
                (IF pc.input[k].raises \in {"ValueError", "ModelFitError", "RuntimeError"}
                 THEN NaNRow ELSE pc.input[k].err)

\* C23 witness: the first star failed with ModelFitError and the last star,
\* after it, has its computed errors.
C23_Witness ==
    /\ ocall.op = "_measure_shape_errors"
    /\ pc.input[1].raises = "ModelFitError"
    /\ pc.input[NStars].raises = ""
    /\ ocall.ret.errors[1] = NaNRow
    /\ ocall.ret.errors[NStars] = Array([j \in Shapes |-> RInt(1)])

\* The surviving stars are degenerate for the free parameters: their three
\* shapes each give no more numbers than there are free keys (the
\* 3 * len(stars) - len(vals_in) of _analytic_chi2 is not positive).
Degenerate == 3 * Len(psf.fit_stars) <= NFree

\* C21 as stated: the population fit (_fit_init, then the optimizer) ends
\* with an error exactly when the surviving stars are degenerate for the
\* number of free parameters.
C21_FailsExactlyWhenDegenerate ==
    ocall.op = "fit" => (ocall.ret = "ValueError" <=> Degenerate)

(***************************************************************************)
(* Construction and persistence of OpticalWavefrontPSF (checked under      *)
(* SpecIO).                                                                *)
(***************************************************************************)
\* C24 as stated: constructing OpticalWavefrontPSF with a fitter_algorithm
\* outside minuit, lmfit, scipy, emcee, or with a bound in fitter_kwargs
\* whose lower end is above its upper end, fails during construction.
C24_MisconfigurationFailsAtConstruction ==
    ocall.op = "__init__" =>
       ((ocall.args.fitter_algorithm \notin Algorithms \/ InvalidBound(ocall.args.user))
           => ocall.ret # "")

\* The object that was written, as far as the claim names it.
Persisted(o) ==
    [vals |-> o.fitter_kwargs, fix |-> o.fix, limit |-> o.limit,
     step_sizes |-> o.step_sizes, error |-> o.error, weights |-> o.weights]

\* C25 as stated: the object read by _finish_read has, for every key, the
\* value, the fixed flag, the bounds, the step size and the error estimate
\* of the object that _finish_write wrote, and its weights; also after
\* disable_atmosphere.
C25_WriteReadRoundTrip ==
    ocall.op = "_finish_read" => Persisted(ocall.ret) = Persisted(psf)

\* model.__dict__ == roundtrip_model.__dict__: the same attributes, with
\* values that compare equal.
SameKwargs(a, b) == DOMAIN a = DOMAIN b /\ \A k \in DOMAIN a : PyEq(a[k], b[k])

SameModel(a, b) ==
    /\ SameKwargs(a.kwargs, b.kwargs)
    /\ a.gsobj = b.gsobj
    /\ PyEq(a.fastfit, b.fastfit)
    /\ PyEq(a.force_model_center, b.force_model_center)
    /\ a.method = b.method
    /\ a.nparams = b.nparams

\* C26 as stated: a GSObjectModel, Gaussian, Kolmogorov or Moffat that is
\* written and read back has equal attributes; write_kwargs leaves out the
\* entries that are None and read_kwargs returns every other entry under
\* its key with an equal value.
C26_ModelRoundTrip ==
    ocall.op = "Model.read" =>
       /\ SameModel(ocall.ret, ocall.args.m)
       /\ DOMAIN ocall.vals = {k \in DOMAIN ocall.args.m.kwargs : ocall.args.m.kwargs[k] # None}
       /\ \A k \in DOMAIN ocall.vals : PyEq(ocall.vals[k], ocall.args.m.kwargs[k])

(***************************************************************************)
(* The calls of one model on several stars (checked under Spec).           *)
(***************************************************************************)
\* The heap with nothing in it but the star s.
Alone(s) ==
    [stars |-> <<[data |-> 1, fit |-> 1]>>, datas |-> <<DataOf(World, s)>>,
     fits |-> <<FitOf(World, s)>>]

\* What a call gave: the error, or the data and the fit of the star returned.
Outcome(r) ==
    IF IsErr(r) THEN [err |-> r.ret.err]
    ELSE [data |-> DataOf(r.w, r.ret.id), fit |-> FitOf(r.w, r.ret.id)]

RunAlone(op, s, opt, inp) ==
    IF op = "initialize" THEN initialize(Alone(s), 1, inp)
    ELSE IF op = "fit" THEN fit(Alone(s), 1, opt, inp)
    ELSE reflux(Alone(s), 1, opt = "True", inp)

\* The outcomes of the external calls that the call op on star s can meet.
InputsOf(op, s, opt) ==
    IF op = "initialize" THEN Inputs(TRUE, FALSE)
    ELSE IF op = "fit"
    THEN Inputs(UsesFast(opt) \/ FitOf(World, s).params = None, ~UsesFast(opt))
    ELSE Inputs(FALSE, opt = "True" /\ model.fmc)

\* The last call gave what the same call gives on its star alone, for some
\* outcome of the external measurement and minimizer.  (The star given to a
\* call is not changed by it, so it is still as it was given.)
AsAlone ==
    call.op \in StarOps =>
       \E inp \in InputsOf(call.op, call.arg, call.opt) :
          Outcome(RunAlone(call.op, call.arg, call.opt, inp)) =
             (IF call.ret.kind = "error" THEN [err |-> call.ret.err]
              ELSE [data |-> DataOf(World, call.ret.id), fit |-> FitOf(World, call.ret.id)])

InitializeCalls == Count(call.tr, "with_hsm")

\* C29: a call of fit or initialize enters initialize at most twice: twice
\* when it returns for a star without fit parameters (initialize, its fast
\* fit, and the initialize of that fit), once for a star with parameters,
\* with or without moments recorded on the star.
C29_BoundedInitializeNesting ==
    call.op \in {"fit", "initialize"} =>
       /\ InitializeCalls <= 2
       /\ call.ret.kind = "star" =>
             InitializeCalls = (IF FitOf(World, call.arg).params = None THEN 2 ELSE 1)

\* C29 witness: fit has returned for a star that had no fit parameters.
C29_Witness ==
    /\ call.op = "fit" /\ call.ret.kind = "star"
    /\ FitOf(World, call.arg).params = None
    /\ InitializeCalls = 2

(***************************************************************************)
(* The fit with and without a logger (checked under SpecLog).              *)
(***************************************************************************)
\* C30 as stated: the fit run with a logger ends with the same
\* fitter_kwargs, the same live PSF parameters, the same _n_iter and the
\* same error outcome as the fit run with logger=None, for every backend.
C30_LoggerChangesNothing ==
    ocall.op = "fit" =>
       /\ psf.logged.fitter_kwargs = psf.quiet.fitter_kwargs
       /\ psf.logged.live = psf.quiet.live
       /\ psf.logged.n_iter = psf.quiet.n_iter
       /\ ocall.ret.logged = ocall.ret.quiet

====
